---- MODULE Spec2Model ----
(***************************************************************************)
(* LIL (Little Interpreted Language) as embedded in U-Boot:                *)
(* src/common/cli_lil.c.  The interpreter is modelled at the level of the  *)
(* C code: source texts and Values are sequences of one-character strings, *)
(* the cursor (code, clen, head) is that of struct lil, Environments and   *)
(* Functions live in heaps indexed by their identity.  Every C function is *)
(* an operator of the same name that takes the interpreter record and      *)
(* returns the updated record (and a result where the C function has one). *)
(***************************************************************************)
EXTENDS Integers, Sequences, FiniteSets, TLC

VARIABLES
    lil,      \* struct lil, with the heaps of its Environments and Functions
    hostenv,  \* U-Boot's environment store behind env_set() / env_get()
    trace,    \* history: what the last host call did, in order
    last      \* history: the last host call and what it was given

\* A local name for a value: Bind(v, LAMBDA x : e) is e with x standing
\* for v, and v is computed before e is
Bind(v, Body(_)) == IF v = v THEN Body(v) ELSE v

vars == <<lil, hostenv, trace, last>>

-----------------------------------------------------------------------------
(* Bounds of the model *)

\* Variables one Environment may hold before the host stops assigning
MaxVars == 3
\* Environments that may be alive at once (root included)
MaxEnvs == 3
\* Calls the host makes
MaxCalls == 2
\* Calls the host makes through the interface of Variables and Environments
MaxApiCalls == 4
\* Items of a List the host builds
MaxListLen == 2
\* Characters of an item of that List drawn from ItemChars
MaxItemLen == 2
\* ctrlc() reads true at this poll of a call; 0: at none
Polls == {0, 2}

-----------------------------------------------------------------------------
(* Characters and strings *)

\* The terminating NUL that a read at or past the end of a C string meets
NUL == "NUL"

\* A null pointer where a string or a struct lil_value * is expected
NULL == <<"NULL">>

\* code[i] of a NUL-terminated C string (0-based)
At(code, i) == IF i >= 0 /\ i < Len(code) THEN code[i + 1] ELSE NUL

\* Control characters a TLA+ string cannot hold stand as names
BS == "BS"
VT == "VT"
BEL == "BEL"
BQ == "BQ"

isspace(ch) == ch \in {" ", "\t", "\n", "\r", "\f", VT}

ispunct(ch) ==
    ch \in {"!", "\"", "#", "$", "%", "&", "'", "(", ")", "*", "+", ",", "-",
            ".", "/", ":", ";", "<", "=", ">", "?", "@", "[", "\\", "]", "^",
            "_", BQ, "{", "|", "}", "~"}

islilspecial(ch) == ch \in {"$", "{", "}", "[", "]", "\"", "'", ";"}

eolchar(ch) == ch \in {"\n", "\r", ";"}

\* strlen: the bytes before the first NUL
strlen(str) ==
    IF \E i \in 1..Len(str) : str[i] = NUL
    THEN (CHOOSE i \in 1..Len(str) :
            str[i] = NUL /\ \A j \in 1..(i - 1) : str[j] # NUL) - 1
    ELSE Len(str)

\* lil_to_string gives the bytes as a C string, which ends at the first NUL
lil_to_string(val) ==
    IF val = NULL THEN <<>> ELSE SubSeq(val, 1, strlen(val))

\* lil_clone_value: a copy, null for null
lil_clone_value(src) == src

\* lil_append_val: nothing is appended for a null or empty Value
lil_append_val(val, v) == IF v = NULL \/ Len(v) = 0 THEN val ELSE val \o v

\* The string literals the code uses
S_args == <<"a", "r", "g", "s">>
S_global == <<"g", "l", "o", "b", "a", "l">>
S_set_ == <<"s", "e", "t", " ">>
S_not == <<"n", "o", "t">>
S_clean == <<"c", "l", "e", "a", "n">>
S_interrupted == <<"i", "n", "t", "e", "r", "r", "u", "p", "t", "e", "d">>
S_unknown_function_ ==
    <<"u", "n", "k", "n", "o", "w", "n", " ", "f", "u", "n", "c", "t", "i",
      "o", "n", " ">>
S_expected_ == <<"e", "x", "p", "e", "c", "t", "e", "d", " ">>
S_esc_open == <<"}", "\"", "\\", "o", "\"", "{">>
S_esc_close == <<"}", "\"", "\\", "c", "\"", "{">>
S_catcher_limit_ == <<"c", "a", "t", "c", "h", "e", "r", " ", "l", "i", "m", "i", "t", " ", "r", "e", "a", "c", "h", "e", "d", " ", "w", "h", "i", "l", "e", " ", "t", "r", "y", "i", "n", "g", " ", "t", "o", " ", "c", "a", "l", "l", " ", "u", "n", "k", "n", "o", "w", "n", " ", "f", "u", "n", "c", "t", "i", "o", "n", " ">>
S_anonymous_function == <<"a", "n", "o", "n", "y", "m", "o", "u", "s", "-", "f", "u", "n", "c", "t", "i", "o", "n">>
S_un_ == <<"!", "!", "u", "n", "!">>
S_nu_ == <<"!", "n", "u", "!", "!">>
S_i == <<"i">>
S_version == <<"v", "e", "r", "s", "i", "o", "n">>
S_body == <<"b", "o", "d", "y">>
S_func_count == <<"f", "u", "n", "c", "-", "c", "o", "u", "n", "t">>
S_funcs == <<"f", "u", "n", "c", "s">>
S_vars == <<"v", "a", "r", "s">>
S_globals == <<"g", "l", "o", "b", "a", "l", "s">>
S_has_func == <<"h", "a", "s", "-", "f", "u", "n", "c">>
S_has_var == <<"h", "a", "s", "-", "v", "a", "r">>
S_has_global == <<"h", "a", "s", "-", "g", "l", "o", "b", "a", "l">>
S_error == <<"e", "r", "r", "o", "r">>
S_dollar_prefix == <<"d", "o", "l", "l", "a", "r", "-", "p", "r", "e", "f", "i", "x">>
S_this == <<"t", "h", "i", "s">>
S_name == <<"n", "a", "m", "e">>
S_reflect == <<"r", "e", "f", "l", "e", "c", "t">>
LIL_VERSION_STRING == <<"0", ".", "1">>

MAX_CATCHER_DEPTH == 16384

-----------------------------------------------------------------------------
(* struct hashmap: key -> pointer.  The 256 buckets only partition the     *)
(* keys, so one list of (k, v) entries in insertion order has the same     *)
(* lookups.  A value of 0 is the null pointer.                             *)

hm_index(hm, key) ==
    IF \E i \in 1..Len(hm) : hm[i].k = key
    THEN CHOOSE i \in 1..Len(hm) : hm[i].k = key
    ELSE 0

hm_put(hm, key, value) ==
    LET i == hm_index(hm, key) IN
    IF i # 0 THEN [hm EXCEPT ![i].v = value]
    ELSE Append(hm, [k |-> key, v |-> value])

hm_get(hm, key) ==
    LET i == hm_index(hm, key) IN IF i # 0 THEN hm[i].v ELSE 0

hm_has(hm, key) == hm_index(hm, key) # 0

-----------------------------------------------------------------------------
(* The data model: struct lil_var, lil_env, lil_func, lil *)

\* enum lil_setvar
LIL_SETVAR_GLOBAL == 0
LIL_SETVAR_LOCAL == 1
LIL_SETVAR_LOCAL_NEW == 2
LIL_SETVAR_LOCAL_ONLY == 3

\* the error kinds of struct lil
ERROR_NOERROR == 0
ERROR_DEFAULT == 1
ERROR_FIXHEAD == 2
ERROR_UNBALANCED == 3

\* A struct lil_var * is the owning Environment and the index in its var
\* array (Variables are never removed from the array); NULLVAR is null.
NULLVAR == [env |-> 0, idx |-> 0]

\* lil_alloc_env: calloc gives zeroes everywhere but the parent
lil_alloc_env(parent) ==
    [alive |-> TRUE, parent |-> parent, func |-> 0, catcher_for |-> NULL,
     var |-> <<>>, varmap |-> <<>>, retval |-> NULL, retval_set |-> 0,
     breakrun |-> 0]

\* The Variable a pointer refers to
VarOf(l, p) == l.envs[p.env].var[p.idx]

\* The Environments between the root and env that do not continue the chain
\* of the one above them: dead ones and ones whose parent is not the
\* Environment made just before them
Breaks(envs, rootenv, env) ==
    {k \in (rootenv + 1)..env : ~envs[k].alive \/ envs[k].parent # k - 1}

\* The Environment env reaches the root over parent links, through live
\* Environments only.  A parent is older than its child; the walk goes down
\* to the highest break in one step.
RECURSIVE ReachesRoot(_, _, _)
ReachesRoot(envs, rootenv, env) ==
    /\ env \in 1..Len(envs)
    /\ rootenv \in 1..env
    /\ LET br == Breaks(envs, rootenv, env) IN
       IF br = {} THEN envs[rootenv].alive
       ELSE LET b == CHOOSE k \in br : \A j \in br : j <= k IN
            /\ envs[b].alive
            /\ envs[b].parent < b
            /\ ReachesRoot(envs, rootenv, envs[b].parent)

\* The chain of the current Environment: it ends at the root, which has
\* neither a parent nor an owning Function
Rooted(l) ==
    /\ ReachesRoot(l.envs, l.rootenv, l.env)
    /\ l.envs[l.rootenv].parent = 0
    /\ l.envs[l.rootenv].func = 0

\* The cursor of the interpreter: the text it reads, its length and the
\* position in it
Cursor(l) == [code |-> l.code, clen |-> l.clen, head |-> l.head]

\* Records of the history: the event, with the error kind, the current
\* Environment, the parse depth and the catcher depth at that moment, and
\* the interpreter instance (0: the host's, above 0: one made by jaileval)
Log(l, e) ==
    [l EXCEPT !.trace = Append(@, e @@ [err |-> l.error, cur |-> l.env,
                                        rooted |-> Rooted(l),
                                        head |-> l.head,
                                        errpos |-> l.err_head,
                                        depth |-> l.parse_depth,
                                        down |-> l.downenv,
                                        eol |-> l.ignoreeol,
                                        catch |-> l.in_catcher,
                                        inst |-> l.inst])]

\* env_set / env_get of U-Boot's environment store: a write of the empty
\* string deletes the entry, a read of a missing entry gives a null string.
env_set(l, name, d) ==
    LET h == {e \in l.hostenv : e.k # name}
        l1 == Log(l, [ev |-> "env_set", name |-> name, val |-> d])
    IN [l |-> [l1 EXCEPT !.hostenv =
                 IF d = NULL \/ d = <<>> THEN h
                 ELSE h \cup {[k |-> name, v |-> d]}],
        r |-> 0]

env_get(l, name) ==
    IF \E e \in l.hostenv : e.k = name
    THEN (CHOOSE e \in l.hostenv : e.k = name).v
    ELSE NULL

\* ctrlc(): the host's interrupt predicate.  l.polls counts the polls left
\* before the one that reads true (0: no key is pressed during this call).
ctrlc(l) ==
    [l |-> [l EXCEPT !.polls = IF @ > 0 THEN @ - 1 ELSE 0],
     r |-> l.polls = 1]

lil_find_local_var(l, env, name) ==
    LET i == hm_get(l.envs[env].varmap, name) IN
    IF i = 0 THEN NULLVAR ELSE [env |-> env, idx |-> i]

\* lil_find_var that climbs the chain of parent frames
RECURSIVE lil_find_var_chain(_, _, _)
lil_find_var_chain(l, env, name) ==
    LET r == lil_find_local_var(l, env, name) IN
    IF r # NULLVAR THEN r
    ELSE IF env = l.rootenv \/ l.envs[env].parent = 0 THEN NULLVAR
    ELSE lil_find_var_chain(l, l.envs[env].parent, name)

\* lil_find_var that never falls through to the root
lil_find_var_local(l, env, name) == lil_find_local_var(l, env, name)

lil_find_var(l, env, name) ==
    LET r == lil_find_local_var(l, env, name) IN
    IF r # NULLVAR THEN r
    ELSE IF env = l.rootenv THEN NULLVAR
    ELSE lil_find_local_var(l, l.rootenv, name)

\* strchr(name, '.'): the index of the first dot, -1 for none
DotIndex(name) ==
    IF \E i \in 1..Len(name) : name[i] = "."
    THEN (CHOOSE i \in 1..Len(name) :
            name[i] = "." /\ \A j \in 1..(i - 1) : name[j] # ".") - 1
    ELSE -1

\* The name's buffer with character c written at index dot, if there is one
PutAt(name, dot, c) ==
    IF dot >= 0 THEN [name EXCEPT ![dot + 1] = c] ELSE name

\* lil_find_cmd that leaves the name cut at its first dot
FindCmd_cut(l, name) ==
    LET dot == DotIndex(name)
        cut == PutAt(name, dot, NUL)
    IN [r |-> hm_get(l.cmdmap, SubSeq(cut, 1, strlen(cut))), name |-> cut]

\* lil_find_cmd: a NUL is written over the first dot of the name, the
\* string that is left is looked up, and the dot is written back.  r is
\* the Function found, name the name's buffer afterwards.
FindCmd(l, name) ==
    LET dot == DotIndex(name)
        cut == PutAt(name, dot, NUL)
    IN [r |-> hm_get(l.cmdmap, SubSeq(cut, 1, strlen(cut))),
        name |-> PutAt(cut, dot, ".")]

lil_find_cmd(l, name) == FindCmd(l, name).r

\* The first place in the command vector of a Function of that name, and
\* the place of a Function; 0 for none
PosOfName(l, name) ==
    LET at == {k \in 1..Len(l.cmd) : l.funcs[l.cmd[k]].name = name} IN
    IF at = {} THEN 0 ELSE CHOOSE k \in at : \A j \in at : k <= j

PosOfFunc(l, id) ==
    LET at == {k \in 1..Len(l.cmd) : l.cmd[k] = id} IN
    IF at = {} THEN 0 ELSE CHOOSE k \in at : \A j \in at : k <= j

\* lil_free_value(cmd->code) seen from lil_parse.  run_cmd gave lil_parse
\* the bytes of cmd->code themselves, so when the Function whose body is
\* being read is emptied or deleted the text under the cursor is freed
\* memory: it reads as before if the build has left the block alone
\* (undef = 0), and as the zeroes of a calloc that took the block otherwise.
FreeCode(l, cmd) ==
    IF l.funcs[cmd].code # NULL /\ l.envs[l.env].func = cmd
       /\ l.code = l.funcs[cmd].code /\ l.undef # 0
    THEN [i \in 1..Len(l.code) |-> NUL]
    ELSE l.code

\* add_func: the Function of that name, emptied, or a new one at the end of
\* the command vector.  r is the Function's identity.
add_func(l, name) ==
    LET cmd == lil_find_cmd(l, name)
        pos0 == PosOfName(l, name)
        reg(l1, id) ==
            Log(l1, [ev |-> "add_func", name |-> name, id |-> id,
                     pos0 |-> pos0,
                     id0 |-> IF pos0 = 0 THEN 0 ELSE l.cmd[pos0],
                     pos |-> PosOfFunc(l1, id),
                     len0 |-> Len(l.cmd), len |-> Len(l1.cmd)])
    IN
    IF cmd # 0
    THEN [l |-> reg([l EXCEPT !.funcs[cmd].argnames = NULL,
                              !.funcs[cmd].code = NULL,
                              !.funcs[cmd].proc = "",
                              !.code = FreeCode(l, cmd)], cmd),
          r |-> cmd]
    ELSE LET id == Len(l.funcs) + 1 IN
         [l |-> reg([l EXCEPT !.funcs = Append(@, [alive |-> TRUE,
                                                   name |-> name,
                                                   code |-> NULL,
                                                   argnames |-> NULL,
                                                   proc |-> ""]),
                              !.cmd = Append(@, id),
                              !.cmdmap = hm_put(@, name, id)], id),
          r |-> id]

lil_register(l, name, proc) ==
    LET a == add_func(l, name) IN [a.l EXCEPT !.funcs[a.r].proc = proc]

\* del_func: the Function leaves the command vector, its name stays in the
\* map with a null pointer, and its argument names, code, name and the
\* Function itself are freed
del_func(l, cmd) ==
    LET index == PosOfFunc(l, cmd) IN
    IF index = 0 THEN l
    ELSE Log([l EXCEPT !.cmdmap = hm_put(@, l.funcs[cmd].name, 0),
                       !.funcs[cmd].alive = FALSE,
                       !.code = FreeCode(l, cmd),
                       !.cmd = SubSeq(@, 1, index - 1)
                               \o SubSeq(@, index + 1, Len(@))],
             [ev |-> "del_func", id |-> cmd, name |-> l.funcs[cmd].name,
              pos0 |-> index])

\* lil_push_env / lil_pop_env.  A freed Environment at the end of the heap
\* gives its place back, as the allocator may.
lil_push_env(l) ==
    [l EXCEPT !.envs = Append(@, lil_alloc_env(l.env)),
              !.env = Len(l.envs) + 1]

RECURSIVE TrimHeap(_)
TrimHeap(envs) ==
    IF Len(envs) > 0 /\ ~envs[Len(envs)].alive
    THEN TrimHeap(SubSeq(envs, 1, Len(envs) - 1))
    ELSE envs

lil_free_env(l, env) == [l EXCEPT !.envs = TrimHeap([@ EXCEPT ![env].alive = FALSE])]

\* lil_pop_env that leaves the frame in place
lil_pop_env_stays(l) == l

\* lil_pop_env without the test of the parent
lil_pop_env_at_root(l) ==
    [lil_free_env(l, l.env) EXCEPT !.env = l.envs[l.env].parent]

lil_pop_env(l) ==
    IF l.envs[l.env].parent # 0
    THEN LET next == l.envs[l.env].parent IN
         [lil_free_env(l, l.env) EXCEPT !.env = next]
    ELSE l

-----------------------------------------------------------------------------
(* The error slot *)

lil_set_error(l, msg) ==
    IF l.error # ERROR_NOERROR THEN l
    ELSE [l EXCEPT !.error = ERROR_FIXHEAD, !.err_head = 0,
                   !.err_msg = IF msg = NULL THEN <<>> ELSE msg]

\* lil_set_error_at that replaces an error that is pending
lil_set_error_at_over(l, pos, msg) ==
    [l EXCEPT !.error = ERROR_DEFAULT, !.err_head = pos,
              !.err_msg = IF msg = NULL THEN <<>> ELSE msg]

lil_set_error_at(l, pos, msg) ==
    IF l.error # ERROR_NOERROR THEN l
    ELSE [l EXCEPT !.error = ERROR_DEFAULT, !.err_head = pos,
                   !.err_msg = IF msg = NULL THEN <<>> ELSE msg]

\* lil_set_error_unbalanced that replaces an error that is pending
lil_set_error_unbalanced_over(l, expected) ==
    Bind([l EXCEPT !.error = ERROR_UNBALANCED, !.err_head = l.head,
                   !.err_msg = S_expected_ \o <<expected>>], LAMBDA l1 :
    Log(l1, [ev |-> "unbalanced", expected |-> expected, err0 |-> l.error,
             msg0 |-> l.err_msg, msg |-> l1.err_msg]))

lil_set_error_unbalanced(l, expected) ==
    Bind(IF l.error # ERROR_NOERROR THEN l
         ELSE [lil_set_error_at(l, l.head, S_expected_ \o <<expected>>)
                 EXCEPT !.error = ERROR_UNBALANCED], LAMBDA l1 :
    Log(l1, [ev |-> "unbalanced", expected |-> expected, err0 |-> l.error,
             msg0 |-> l.err_msg, msg |-> l1.err_msg]))

-----------------------------------------------------------------------------
(* The tokenizer *)

ateol(l) == l.ignoreeol = 0 /\ eolchar(At(l.code, l.head))

\* A loop that only moves the cursor towards the end of the text stops at
\* the first position from head on that is in stops, or at clen
FirstFrom(head, clen, stops) ==
    IF head >= clen THEN head
    ELSE CHOOSE j \in head..clen :
             /\ j = clen \/ j \in stops
             /\ \A k \in head..(j - 1) : k \notin stops

\* the loops of lil_skip_spaces, on the cursor alone
SkipMultiComment(code, clen, head) ==
    LET j == FirstFrom(head, clen,
                       {k \in head..(clen - 1) :
                            At(code, k) = "#" /\ At(code, k + 1) = "#"
                            /\ At(code, k + 2) # "#"})
    IN IF j < clen THEN j + 2 ELSE j

SkipWhile(code, clen, head, eol) ==
    FirstFrom(head, clen,
              {k \in head..(clen - 1) : eolchar(At(code, k)) # eol})

RECURSIVE SkipSpacesFrom(_, _, _, _)
SkipSpacesFrom(code, clen, ignoreeol, head) ==
    IF head >= clen THEN head
    ELSE LET c == At(code, head) IN
         IF c = "#"
         THEN IF At(code, head + 1) = "#" /\ At(code, head + 2) # "#"
              THEN SkipSpacesFrom(code, clen, ignoreeol,
                                  SkipMultiComment(code, clen, head + 2))
              ELSE SkipSpacesFrom(code, clen, ignoreeol,
                                  SkipWhile(code, clen, head, FALSE))
         ELSE IF c = "\\" /\ eolchar(At(code, head + 1))
         THEN SkipSpacesFrom(code, clen, ignoreeol,
                             SkipWhile(code, clen, head + 1, TRUE))
         ELSE IF eolchar(c)
         THEN IF ignoreeol # 0
              THEN SkipSpacesFrom(code, clen, ignoreeol, head + 1)
              ELSE head
         ELSE IF isspace(c)
         THEN SkipSpacesFrom(code, clen, ignoreeol, head + 1)
         ELSE head

lil_skip_spaces(l) ==
    [l EXCEPT !.head = SkipSpacesFrom(l.code, l.clen, l.ignoreeol, l.head)]

\* The loop that next_word runs for a braced word and get_bracketpart for a
\* bracketed one, from the character after the opening one: cnt, 1 at the
\* start, goes up at every opening character and down at every closing one,
\* and the loop ends behind the closing character that brings it to 0.
\* cnt is 0 when that one was found; val is the text in between.
NestLoop(code, clen, head, open, close) ==
    LET Count(ch, j) == Cardinality({k \in head..j : At(code, k) = ch})
        cnt(j) == 1 + Count(open, j) - Count(close, j)
        end == FirstFrom(head, clen,
                         {j \in head..(clen - 1) :
                              At(code, j) = close /\ cnt(j) = 0})
    IN IF end < clen
       THEN [head |-> end + 1, cnt |-> 0, val |-> SubSeq(code, head + 1, end)]
       ELSE [head |-> end, cnt |-> cnt(clen - 1),
             val |-> SubSeq(code, head + 1, clen)]

\* The escape sequences of a quoted word
Unescape(ch) ==
    CASE ch = "b" -> BS
      [] ch = "t" -> "\t"
      [] ch = "n" -> "\n"
      [] ch = "v" -> VT
      [] ch = "f" -> "\f"
      [] ch = "r" -> "\r"
      [] ch = "0" -> NUL
      [] ch = "a" -> BEL
      [] ch = "c" -> "}"
      [] ch = "o" -> "{"
      [] OTHER -> ch

\* The end of a bare word
BareEnd(code, clen, head) ==
    FirstFrom(head, clen,
              {k \in head..(clen - 1) : isspace(At(code, k))
                                        \/ islilspecial(At(code, k))})

-----------------------------------------------------------------------------
(* The evaluator.  Operators that return a value give [l |-> the           *)
(* interpreter afterwards, r |-> the value].                               *)

RECURSIVE lil_parse(_, _, _, _), lil_parse_value(_, _, _)
RECURSIVE ParseLoop(_, _, _, _, _), ParseNext(_, _, _, _)
RECURSIVE next_word(_), QuoteLoop(_, _, _), get_bracketpart(_)
RECURSIVE get_dollarpart(_), substitute(_), SubstLoop(_, _), WordLoop(_, _)
RECURSIVE lil_set_var(_, _, _, _), run_cmd(_, _, _), BindArgs(_, _, _, _)
RECURSIVE RunWatch(_, _), RunWatch_in_place(_, _)
RECURSIVE CallProc(_, _, _), unknown_cmd(_, _), Dispatch(_, _)
RECURSIVE unknown_cmd_one_more(_, _)
RECURSIVE lil_subst_to_list(_, _), lil_subst_to_value(_, _)
RECURSIVE lil_eval_expr(_, _), lil_call(_, _, _)
RECURSIVE Eval(_, _)

\* lil_set_var creating the Variable without entering it in the name index
NewVar_unlinked(l0, env, name, val, local) ==
    LET idx == Len(l0.envs[env].var) + 1
        l == Log(l0, [ev |-> "setvar", name |-> name, val |-> val,
                      mode |-> local, tgt |-> [env |-> env, idx |-> idx],
                      created |-> TRUE, w |-> NULL])
    IN [l |-> [l EXCEPT !.envs[env].var =
                   Append(@, [n |-> name, w |-> NULL, env |-> env,
                              v |-> lil_clone_value(val)])],
        r |-> [env |-> env, idx |-> idx]]

\* env_set(name, val->d) with a null val: the read of the field d through
\* the null pointer.  Where the read does not trap it gives the pointer the
\* build finds at that address: a null one (undef = 0) or one to some bytes.
env_set_null(l, name) ==
    env_set(Log(l, [ev |-> "null_deref", name |-> name]), name,
            IF l.undef = 0 THEN NULL ELSE <<"?">>)

\* lil_set_var creating the Variable in env
NewVar(l0, env, name, val, local) ==
    LET idx == Len(l0.envs[env].var) + 1
        l == Log(l0, [ev |-> "setvar", name |-> name, val |-> val,
                      mode |-> local, tgt |-> [env |-> env, idx |-> idx],
                      created |-> TRUE, w |-> NULL])
        l1 == [l EXCEPT !.envs[env].var =
                   Append(@, [n |-> name, w |-> NULL, env |-> env,
                              v |-> lil_clone_value(val)]),
                        !.envs[env].varmap = hm_put(@, name, idx)]
    IN [l |-> l1, r |-> [env |-> env, idx |-> idx]]

\* lil_set_var overwriting whatever lookup finds, in every mode
SetVarTarget_plain(l, env, name, local) == lil_find_var(l, env, name)

\* lil_set_var running the watch in the Environment of the assignment
RunWatch_in_place(l, var) == lil_parse(l, VarOf(l, var).w, 0, 1).l

\* lil_set_var choosing the Variable to overwrite: the one lookup finds,
\* but for LOCAL_ONLY not a Variable of the root seen from another frame
SetVarTarget(l, env, name, local) ==
    Bind(lil_find_var(l, env, name), LAMBDA var :
    IF local = LIL_SETVAR_LOCAL_ONLY /\ var # NULLVAR
       /\ var.env = l.rootenv /\ var.env # env
    THEN NULLVAR ELSE var)

\* lil_set_var running the watch of the Variable it has overwritten
RunWatch(l, var) ==
    LET save_env == l.env IN
    Bind(lil_parse([l EXCEPT !.env = var.env], VarOf(l, var).w, 0, 1),
         LAMBDA p :
    [p.l EXCEPT !.env = save_env])

lil_set_var(l, name, val, local) ==
    LET env == IF local = LIL_SETVAR_GLOBAL THEN l.rootenv ELSE l.env IN
    IF Len(name) = 0 THEN [l |-> l, r |-> NULLVAR]
    ELSE IF local # LIL_SETVAR_LOCAL_NEW
    THEN Bind(SetVarTarget(l, env, name, local), LAMBDA var :
         Bind(IF (var = NULLVAR /\ env = l.rootenv)
                 \/ (var # NULLVAR /\ var.env = l.rootenv)
              THEN IF val = NULL THEN env_set_null(l, name)
                   ELSE env_set(l, name, lil_to_string(val))
              ELSE [l |-> l, r |-> 0], LAMBDA es :
         IF es.r # 0 THEN [l |-> es.l, r |-> NULLVAR]
         ELSE IF var # NULLVAR
         THEN Bind(VarOf(es.l, var).w, LAMBDA w :
              Bind([Log(es.l, [ev |-> "setvar", name |-> name,
                               val |-> val, mode |-> local,
                               tgt |-> var, created |-> FALSE,
                               w |-> w])
                      EXCEPT !.envs[var.env].var[var.idx].v =
                                 lil_clone_value(val)], LAMBDA l1 :
              [l |-> IF w # NULL THEN RunWatch(l1, var) ELSE l1,
               r |-> var]))
         ELSE NewVar(es.l, env, name, val, local)))
    ELSE NewVar(l, env, name, val, local)

\* lil_alloc_string: a Value also for a null string
lil_alloc_string(str) == IF str = NULL THEN <<>> ELSE str

\* Whether a frame strictly between env and the root holds the name
RECURSIVE HiddenAbove(_, _, _)
HiddenAbove(l, env, name) ==
    LET up == l.envs[env].parent IN
    IF env = l.rootenv \/ up = 0 \/ up = l.rootenv THEN FALSE
    ELSE hm_has(l.envs[up].varmap, name) \/ HiddenAbove(l, up, name)

\* lil_get_var_or that asks the environment store for every name
lil_get_var_or_store(l, name, defvalue) ==
    Bind(lil_find_var(l, l.env, name), LAMBDA var :
    Bind(lil_alloc_string(env_get(l, name)), LAMBDA r :
    [l |-> Log(l, [ev |-> "getvar", name |-> name, found |-> var,
                   hidden |-> HiddenAbove(l, l.env, name), val |-> r]),
     r |-> r]))

lil_get_var_or(l, name, defvalue) ==
    Bind(lil_find_var(l, l.env, name), LAMBDA var :
    Bind(IF var # NULLVAR THEN VarOf(l, var).v ELSE defvalue,
         LAMBDA retval :
    Bind(IF var = NULLVAR \/ var.env = l.rootenv
         THEN lil_alloc_string(env_get(l, name))
         ELSE retval, LAMBDA r :
    [l |-> Log(l, [ev |-> "getvar", name |-> name, found |-> var,
                   hidden |-> HiddenAbove(l, l.env, name), val |-> r]),
     r |-> r])))

lil_get_var(l, name) == lil_get_var_or(l, name, l.empty)

\* get_bracketpart that evaluates the contents under the flag it found
get_bracketpart_keeps_eol(l) ==
    LET save_eol == l.ignoreeol IN
    Bind(NestLoop(l.code, l.clen, l.head + 1, "[", "]"),
         LAMBDA n :
    Bind([l EXCEPT !.head = n.head], LAMBDA l1 :
    Bind(IF n.cnt # 0
         THEN [l |-> lil_set_error_unbalanced(l1, "]"), r |-> NULL]
         ELSE lil_parse_value(l1, n.val, 0), LAMBDA p :
    [l |-> Log([p.l EXCEPT !.ignoreeol = save_eol],
               [ev |-> "bracket", code |-> n.val, val |-> p.r,
                eol0 |-> save_eol, ok |-> n.cnt = 0]),
     r |-> p.r])))

get_bracketpart(l) ==
    LET save_eol == l.ignoreeol IN
    Bind(NestLoop(l.code, l.clen, l.head + 1, "[", "]"),
         LAMBDA n :
    Bind([l EXCEPT !.ignoreeol = 0, !.head = n.head], LAMBDA l1 :
    Bind(IF n.cnt # 0
         THEN [l |-> lil_set_error_unbalanced(l1, "]"), r |-> NULL]
         ELSE lil_parse_value(l1, n.val, 0), LAMBDA p :
    [l |-> Log([p.l EXCEPT !.ignoreeol = save_eol],
               [ev |-> "bracket", code |-> n.val, val |-> p.r,
                eol0 |-> save_eol, ok |-> n.cnt = 0]),
     r |-> p.r])))

get_dollarpart(l) ==
    Bind(next_word([l EXCEPT !.head = @ + 1]), LAMBDA name :
    Bind(lil_append_val(name.l.dollarprefix, name.r), LAMBDA tmp :
    Bind(lil_parse_value(name.l, tmp, 0), LAMBDA p :
    [l |-> Log(p.l, [ev |-> "dollar", name |-> name.r, val |-> p.r]),
     r |-> p.r])))

\* The loop of next_word over a quoted word; sc is the opening quote
QuoteLoop(l, sc, val) ==
    IF l.head < l.clen
    THEN LET c == At(l.code, l.head) IN
         IF c = "[" \/ c = "$"
         THEN Bind(IF c = "$" THEN get_dollarpart(l)
                   ELSE get_bracketpart(l), LAMBDA tmp :
              QuoteLoop(tmp.l, sc, lil_append_val(val, tmp.r)))
         ELSE IF c = "\\"
         THEN QuoteLoop([l EXCEPT !.head = @ + 2], sc,
                        Append(val, Unescape(At(l.code, l.head + 1))))
         ELSE IF c = sc
         THEN [l |-> [l EXCEPT !.head = @ + 1], r |-> val, matched |-> TRUE]
         ELSE QuoteLoop([l EXCEPT !.head = @ + 1], sc, Append(val, c))
    ELSE [l |-> l, r |-> val, matched |-> FALSE]

next_word(l0) ==
    Bind(lil_skip_spaces(l0), LAMBDA l :
    Bind(At(l.code, l.head), LAMBDA c :
    Bind(IF c = "$" THEN get_dollarpart(l)
         ELSE IF c = "{"
         THEN Bind(NestLoop(l.code, l.clen, l.head + 1, "{", "}"),
                   LAMBDA n :
              Bind([l EXCEPT !.head = n.head], LAMBDA l1 :
              IF n.cnt # 0
              THEN [l |-> lil_set_error_unbalanced(l1, "}"), r |-> NULL]
              ELSE [l |-> l1, r |-> n.val]))
         ELSE IF c = "[" THEN get_bracketpart(l)
         ELSE IF c = "\"" \/ c = "'"
         THEN Bind(QuoteLoop([l EXCEPT !.head = @ + 1], c, <<>>), LAMBDA q :
              IF ~q.matched
              THEN [l |-> lil_set_error_unbalanced(q.l, c), r |-> NULL]
              ELSE [l |-> q.l, r |-> q.r])
         ELSE Bind(BareEnd(l.code, l.clen, l.head), LAMBDA end :
              [l |-> [l EXCEPT !.head = end],
               r |-> SubSeq(l.code, l.head + 1, end)]), LAMBDA w :
    [l |-> w.l, r |-> IF w.r = NULL THEN <<>> ELSE w.r])))

\* The do-while of substitute that gathers the parts of one word; r is NULL
\* when the parser cannot proceed
WordLoop(l, w) ==
    Bind(next_word(l), LAMBDA wp :
    IF wp.l.head = l.head THEN [l |-> wp.l, r |-> NULL]
    ELSE Bind(lil_append_val(w, wp.r), LAMBDA w1 :
         Bind(wp.l, LAMBDA l1 :
         IF l1.head < l1.clen /\ ~eolchar(At(l1.code, l1.head))
            /\ ~isspace(At(l1.code, l1.head)) /\ l1.error = ERROR_NOERROR
         THEN WordLoop(l1, w1)
         ELSE [l |-> l1, r |-> w1])))

\* The while loop of substitute
SubstLoop(l, words) ==
    IF l.head < l.clen /\ ~ateol(l) /\ l.error = ERROR_NOERROR
    THEN Bind(WordLoop(l, <<>>), LAMBDA w :
         IF w.r = NULL THEN [l |-> w.l, r |-> NULL]
         ELSE SubstLoop(lil_skip_spaces(w.l), Append(words, w.r)))
    ELSE [l |-> l, r |-> words]

substitute(l) == SubstLoop(lil_skip_spaces(l), <<>>)

\* The return of lil_subst_to_list: l0 is the interpreter as the call
\* received it, l the interpreter with the saved fields written back
SubstLeave(l, l0, code, words) ==
    [l |-> Log(l, [ev |-> "list", code |-> code, words |-> words,
                   from |-> Cursor(l0), to |-> Cursor(l),
                   eol0 |-> l0.ignoreeol]),
     r |-> words]

\* lil_subst_to_list that leaves the end-of-line flag set
lil_subst_to_list_keeps_eol(l, code) ==
    Bind(substitute([l EXCEPT !.code = code, !.clen = Len(code),
                              !.head = 0, !.ignoreeol = 1]), LAMBDA s :
    SubstLeave([s.l EXCEPT !.code = l.code, !.clen = l.clen,
                           !.head = l.head],
               l, code, IF s.r = NULL THEN <<>> ELSE s.r))

lil_subst_to_list(l, code) ==
    Bind(substitute([l EXCEPT !.code = code, !.clen = Len(code),
                              !.head = 0, !.ignoreeol = 1]), LAMBDA s :
    SubstLeave([s.l EXCEPT !.code = l.code, !.clen = l.clen,
                           !.head = l.head, !.ignoreeol = l.ignoreeol],
               l, code, IF s.r = NULL THEN <<>> ELSE s.r))

\* needs_escape that does not ask for braces around an empty string
needs_escape_nonempty(str) ==
    \E i \in 1..Len(str) : ispunct(str[i]) \/ isspace(str[i])

needs_escape(str) ==
    Len(str) = 0 \/ \E i \in 1..Len(str) : ispunct(str[i]) \/ isspace(str[i])

\* One item of a list inside braces
RECURSIVE EscapeFrom(_, _)
EscapeFrom(d, j) ==
    IF j > Len(d) THEN <<>>
    ELSE (IF d[j] = "{" THEN S_esc_open
          ELSE IF d[j] = "}" THEN S_esc_close
          ELSE <<d[j]>>) \o EscapeFrom(d, j + 1)

RECURSIVE ListToValueFrom(_, _, _)
ListToValueFrom(list, do_escape, i) ==
    IF i > Len(list) THEN <<>>
    ELSE (IF i > 1 THEN <<" ">> ELSE <<>>)
         \o (IF do_escape # 0 /\ needs_escape(lil_to_string(list[i]))
             THEN <<"{">> \o EscapeFrom(list[i], 1) \o <<"}">>
             ELSE list[i])
         \o ListToValueFrom(list, do_escape, i + 1)

\* lil_list_to_value that never wraps an item in braces
lil_list_to_value_plain(list, do_escape) == ListToValueFrom(list, 0, 1)

lil_list_to_value(list, do_escape) == ListToValueFrom(list, do_escape, 1)

lil_subst_to_value(l, code) ==
    Bind(lil_subst_to_list(l, code), LAMBDA words :
    [l |-> words.l, r |-> lil_list_to_value(words.r, 0)])

\* unknown_cmd that lets the catcher run once more at the limit
unknown_cmd_one_more(l, words) ==
    IF l.catcher # NULL
    THEN IF l.in_catcher <= MAX_CATCHER_DEPTH
         THEN Bind(lil_push_env([l EXCEPT !.in_catcher = @ + 1]),
                   LAMBDA l1 :
              Bind([l1 EXCEPT !.envs[l1.env].catcher_for = words[1]],
                   LAMBDA l2 :
              Bind(lil_set_var(l2, S_args, lil_list_to_value(words, 1),
                               LIL_SETVAR_LOCAL_NEW), LAMBDA sv :
              Bind(lil_parse(sv.l, l.catcher, 0, 1), LAMBDA p :
              [l |-> [lil_pop_env(p.l) EXCEPT !.in_catcher = @ - 1],
               r |-> p.r]))))
         ELSE [l |-> lil_set_error_at(l, l.head, S_catcher_limit_
                                         \o lil_to_string(words[1])),
               r |-> NULL]
    ELSE [l |-> lil_set_error_at(l, l.head, S_unknown_function_
                                    \o lil_to_string(words[1])),
          r |-> NULL]

unknown_cmd(l, words) ==
    IF l.catcher # NULL
    THEN IF l.in_catcher < MAX_CATCHER_DEPTH
         THEN Bind(lil_push_env([l EXCEPT !.in_catcher = @ + 1]),
                   LAMBDA l1 :
              Bind([l1 EXCEPT !.envs[l1.env].catcher_for = words[1]],
                   LAMBDA l2 :
              Bind(lil_set_var(l2, S_args, lil_list_to_value(words, 1),
                               LIL_SETVAR_LOCAL_NEW), LAMBDA sv :
              Bind(lil_parse(sv.l, l.catcher, 0, 1), LAMBDA p :
              [l |-> [lil_pop_env(p.l) EXCEPT !.in_catcher = @ - 1],
               r |-> p.r]))))
         ELSE [l |-> lil_set_error_at(l, l.head, S_catcher_limit_
                                         \o lil_to_string(words[1])),
               r |-> NULL]
    ELSE [l |-> lil_set_error_at(l, l.head, S_unknown_function_
                                    \o lil_to_string(words[1])),
          r |-> NULL]

\* The loop of run_cmd that binds the parameters of a script Function
BindArgs(l, argnames, words, i) ==
    IF i > Len(argnames) THEN l
    ELSE BindArgs(lil_set_var(l, lil_to_string(argnames[i]),
                              IF i < Len(words) THEN words[i + 1]
                              ELSE l.empty,
                              LIL_SETVAR_LOCAL_NEW).l,
                  argnames, words, i + 1)

\* run_cmd that returns the error as the procedure left it
run_cmd_as_left(l, cmd, words) ==
    LET f == l.funcs[cmd] IN
    IF f.proc # ""
    THEN CallProc(l, f.proc, Tail(words))
    ELSE LET l1 == lil_push_env(l)
             l2 == [l1 EXCEPT !.envs[l1.env].func = cmd]
             l3 == IF Len(f.argnames) = 1
                      /\ lil_to_string(f.argnames[1]) = S_args
                   THEN lil_set_var(l2, S_args, lil_list_to_value(words, 1),
                                    LIL_SETVAR_LOCAL_NEW).l
                   ELSE BindArgs(l2, f.argnames, words, 1)
         IN Bind(lil_parse_value(l3, f.code, 1), LAMBDA p :
            [r |-> p.r, l |-> lil_pop_env(p.l)])

run_cmd(l, cmd, words) ==
    LET f == l.funcs[cmd] IN
    IF f.proc # ""
    THEN LET shead == l.head IN
         Bind(CallProc(l, f.proc, Tail(words)), LAMBDA p :
         [l |-> IF p.l.error = ERROR_FIXHEAD
                THEN [p.l EXCEPT !.error = ERROR_DEFAULT,
                                 !.err_head = shead]
                ELSE p.l,
          r |-> p.r])
    ELSE LET l1 == lil_push_env(l)
             l2 == [l1 EXCEPT !.envs[l1.env].func = cmd]
             l3 == IF Len(f.argnames) = 1
                      /\ lil_to_string(f.argnames[1]) = S_args
                   THEN lil_set_var(l2, S_args, lil_list_to_value(words, 1),
                                    LIL_SETVAR_LOCAL_NEW).l
                   ELSE BindArgs(l2, f.argnames, words, 1)
         IN Bind(lil_parse_value(l3, f.code, 1), LAMBDA p :
            [r |-> p.r, l |-> lil_pop_env(p.l)])

\* The body of lil_parse's loop from the test of the words substitute gave
\* to the test of breakrun; s is what substitute returned.  stop: the loop
\* is left for cleanup.
Dispatch(s, pid) ==
    IF s.r = NULL \/ s.l.error # ERROR_NOERROR
    THEN [l |-> s.l, r |-> NULL, stop |-> TRUE]
    ELSE IF Len(s.r) = 0 THEN [l |-> s.l, r |-> NULL, stop |-> FALSE]
    ELSE LET found == FindCmd(s.l, lil_to_string(s.r[1]))
             words == [s.r EXCEPT ![1] = found.name]
             cmd == found.r
             proc == IF cmd = 0 THEN "" ELSE s.l.funcs[cmd].proc
             l1 == Log(s.l, [ev |-> "cmd", pid |-> pid, words |-> words,
                             func |-> cmd, proc |-> proc,
                             catcher |-> s.l.catcher, name0 |-> s.r[1],
                             cmds |-> {s.l.funcs[s.l.cmd[k]].name :
                                          k \in 1..Len(s.l.cmd)}])
         IN Bind(IF cmd = 0
                 THEN IF Len(words[1]) > 0 THEN unknown_cmd(l1, words)
                      ELSE [l |-> l1, r |-> NULL]
                 ELSE run_cmd(l1, cmd, words), LAMBDA res :
            [r |-> res.r,
             l |-> Log(res.l, [ev |-> "done", pid |-> pid, words |-> words,
                               func |-> cmd, proc |-> proc, val |-> res.r]),
             stop |-> (cmd = 0 /\ Len(words[1]) > 0 /\ res.r = NULL)
                      \/ res.l.envs[res.l.env].breakrun # 0])

\* while (ateol(lil)) lil->head++
RECURSIVE EolLoop(_)
EolLoop(l) == IF ateol(l) THEN EolLoop([l EXCEPT !.head = @ + 1]) ELSE l

\* lil_parse from its cleanup label: the caller's cursor (that of l0) comes
\* back, at function level a value set by return or result replaces the
\* loop's, and the parse depth shrinks
ParseCleanup(l, val0, pid, l0, funclevel) ==
    LET l5 == [l EXCEPT !.code = l0.code, !.clen = l0.clen,
                        !.head = l0.head]
        take == funclevel # 0 /\ l5.envs[l5.env].retval_set # 0
        val == IF take THEN l5.envs[l5.env].retval ELSE val0
        l6 == IF take
              THEN [l5 EXCEPT !.envs[l5.env].retval = NULL,
                              !.envs[l5.env].retval_set = 0,
                              !.envs[l5.env].breakrun = 0]
              ELSE l5
        r == IF val = NULL THEN <<>> ELSE val
    IN [l |-> Log([l6 EXCEPT !.parse_depth = @ - 1],
                  [ev |-> "parsed", pid |-> pid, val |-> r, took |-> take,
                   to |-> Cursor(l6), at |-> l.head, len |-> l.clen,
                   brk |-> l.envs[l.env].breakrun]),
        r |-> r]

\* The end of one round of lil_parse's loop: d is what the round gave
ParseNext(d, pid, l0, funclevel) ==
    IF d.stop THEN ParseCleanup(d.l, d.r, pid, l0, funclevel)
    ELSE ParseLoop(lil_skip_spaces(EolLoop(lil_skip_spaces(d.l))),
                   pid, d.r, l0, funclevel)

\* The loop of lil_parse; l0 is the interpreter as lil_parse received it
ParseLoop(l, pid, val, l0, funclevel) ==
    IF l.head < l.clen /\ l.error = ERROR_NOERROR
    THEN ParseNext(LET c == ctrlc(l) IN
                   IF c.r
                   THEN [l |-> Log(lil_set_error_at(c.l, c.l.head,
                                                    S_interrupted),
                                   [ev |-> "interrupted", pid |-> pid]),
                         r |-> NULL, stop |-> TRUE]
                   ELSE Dispatch(substitute(c.l), pid),
                   pid, l0, funclevel)
    ELSE ParseCleanup(l, val, pid, l0, funclevel)

\* lil_parse that clears the error slot on entry at every parse depth
ParseEnter_clears_nested(l, code, codelen, funclevel) ==
    Bind(lil_skip_spaces(
             [l EXCEPT !.rootcode = IF l.code = NULL THEN code ELSE @,
                       !.code = code,
                       !.clen = IF codelen # 0 THEN codelen
                                ELSE strlen(code),
                       !.head = 0]), LAMBDA l1 :
    Bind([l1 EXCEPT !.parse_depth = @ + 1, !.npid = @ + 1], LAMBDA l2 :
    Bind(Log([l2 EXCEPT !.error = ERROR_NOERROR],
             [ev |-> "parse", pid |-> l2.npid, code |-> code,
              from |-> Cursor(l),
              funclevel |-> funclevel, err0 |-> l.error,
              func |-> l.envs[l.env].func,
              brk0 |-> l.envs[l.env].breakrun,
              brk |-> IF funclevel # 0 THEN 0
                      ELSE l.envs[l.env].breakrun]), LAMBDA l3 :
    IF funclevel # 0 THEN [l3 EXCEPT !.envs[l3.env].breakrun = 0]
    ELSE l3)))

\* lil_parse up to its loop: the cursor is set on the new text, the parse
\* depth grows, a parse call at depth 1 clears the error slot and one at
\* function level clears breakrun
ParseEnter(l, code, codelen, funclevel) ==
    Bind(lil_skip_spaces(
             [l EXCEPT !.rootcode = IF l.code = NULL THEN code ELSE @,
                       !.code = code,
                       !.clen = IF codelen # 0 THEN codelen
                                ELSE strlen(code),
                       !.head = 0]), LAMBDA l1 :
    Bind([l1 EXCEPT !.parse_depth = @ + 1, !.npid = @ + 1], LAMBDA l2 :
    Bind(Log([l2 EXCEPT !.error = IF l2.parse_depth = 1
                                  THEN ERROR_NOERROR ELSE @],
             [ev |-> "parse", pid |-> l2.npid, code |-> code,
              from |-> Cursor(l),
              funclevel |-> funclevel, err0 |-> l.error,
              func |-> l.envs[l.env].func,
              brk0 |-> l.envs[l.env].breakrun,
              brk |-> IF funclevel # 0 THEN 0
                      ELSE l.envs[l.env].breakrun]), LAMBDA l3 :
    IF funclevel # 0 THEN [l3 EXCEPT !.envs[l3.env].breakrun = 0]
    ELSE l3)))

lil_parse(l, code, codelen, funclevel) ==
    Eval(l, [op |-> "lil_parse", code |-> code, codelen |-> codelen,
             funclevel |-> funclevel])

lil_parse_value(l, val, funclevel) ==
    IF val = NULL \/ Len(val) = 0 THEN [l |-> l, r |-> <<>>]
    ELSE lil_parse(l, val, Len(val), funclevel)

-----------------------------------------------------------------------------
(* The expression evaluator *)

EERR_NO_ERROR == 0
EERR_SYNTAX_ERROR == 1
EERR_DIVISION_BY_ZERO == 3
EERR_INVALID_EXPRESSION == 4

S_division_by_zero == <<"d", "i", "v", "i", "s", "i", "o", "n", " ", "b", "y", " ", "z", "e", "r", "o", " ", "i", "n", " ", "e", "x", "p", "r", "e", "s", "s", "i", "o", "n">>
S_syntax_error == <<"e", "x", "p", "r", "e", "s", "s", "i", "o", "n", " ", "s", "y", "n", "t", "a", "x", " ", "e", "r", "r", "o", "r">>

\* '0' + d
Digit(d) == <<"0", "1", "2", "3", "4", "5", "6", "7", "8", "9">>[d + 1]

isdigit(ch) == ch \in {"0", "1", "2", "3", "4", "5", "6", "7", "8", "9"}

\* ch - '0'
DigitOf(ch) == CHOOSE d \in 0..9 : Digit(d) = ch

\* The operators of C on ssize_t, on values that do not overflow
Abs(x) == IF x < 0 THEN -x ELSE x

CDiv(x, y) == IF (x < 0) = (y < 0) THEN Abs(x) \div Abs(y)
              ELSE -(Abs(x) \div Abs(y))

CMod(x, y) == x - y * CDiv(x, y)

RECURSIVE CAnd(_, _)
CAnd(x, y) ==
    IF x = 0 \/ y = 0 THEN 0
    ELSE IF x = -1 THEN y
    ELSE IF y = -1 THEN x
    ELSE (x % 2) * (y % 2) + 2 * CAnd(x \div 2, y \div 2)

CNot(x) == -x - 1

COr(x, y) == CNot(CAnd(CNot(x), CNot(y)))

RECURSIVE Pow2(_)
Pow2(k) == IF k = 0 THEN 1 ELSE 2 * Pow2(k - 1)

\* x << y and x >> y, on values of less than 32 bits.  C leaves the shift
\* by a negative count, or by the width of ssize_t or more, and the shift
\* of a negative value to the left undefined; undef is what the build makes
\* of it.
CShl(x, y, undef) == IF y < 0 \/ y >= 64 \/ x < 0 THEN undef
                     ELSE IF x = 0 THEN 0 ELSE x * Pow2(y)

CShr(x, y, undef) == IF y < 0 \/ y >= 64 THEN undef
                     ELSE IF y > 30 THEN (IF x < 0 THEN -1 ELSE 0)
                     ELSE x \div Pow2(y)

ee_invalidpunct(ch) == ispunct(ch) /\ ch \notin {"!", "~", "(", ")", "-", "+"}

RECURSIVE ee_skip_spaces(_)
ee_skip_spaces(ee) ==
    IF ee.head < ee.len /\ isspace(At(ee.code, ee.head))
    THEN ee_skip_spaces([ee EXCEPT !.head = @ + 1])
    ELSE ee

\* The loop of ee_numeric_element
RECURSIVE ee_digits(_)
ee_digits(ee) ==
    IF ee.head < ee.len /\ isdigit(At(ee.code, ee.head))
    THEN ee_digits([ee EXCEPT !.ival = @ * 10 + DigitOf(At(ee.code, ee.head)),
                              !.head = @ + 1])
    ELSE ee

ee_numeric_element(ee) == ee_digits([ee_skip_spaces(ee) EXCEPT !.ival = 0])

\* ee_element that takes what is not a number for the number 1
ee_element_one(ee) ==
    IF isdigit(At(ee.code, ee.head)) THEN ee_numeric_element(ee)
    ELSE [ee EXCEPT !.ival = 1, !.head = @ + 1]

ee_element(ee) ==
    IF isdigit(At(ee.code, ee.head)) THEN ee_numeric_element(ee)
    ELSE [ee EXCEPT !.ival = 1, !.error = EERR_INVALID_EXPRESSION]

RECURSIVE ee_expr(_)

\* ee_paren after the ee_expr of what follows "("
ee_paren_close(e) ==
    IF At(e.code, e.head) = ")" THEN [e EXCEPT !.head = @ + 1]
    ELSE [e EXCEPT !.error = EERR_SYNTAX_ERROR]

ee_paren_at(ee) ==
    IF At(ee.code, ee.head) = "("
    THEN ee_paren_close(ee_skip_spaces(ee_expr([ee EXCEPT !.head = @ + 1])))
    ELSE ee_element(ee)

ee_paren(ee) == ee_paren_at(ee_skip_spaces(ee))

RECURSIVE ee_unary(_)
\* ee_unary after the ee_unary of what follows the operator
ee_unary_op(op, e) ==
    IF e.error # EERR_NO_ERROR THEN e
    ELSE IF op = "-" THEN [e EXCEPT !.ival = -e.ival]
    ELSE IF op = "~" THEN [e EXCEPT !.ival = CNot(e.ival)]
    ELSE IF op = "!" THEN [e EXCEPT !.ival = IF e.ival = 0 THEN 1 ELSE 0]
    ELSE e

ee_unary_at(ee) ==
    IF /\ ee.head < ee.len /\ ee.error = EERR_NO_ERROR
       /\ At(ee.code, ee.head) \in {"-", "+", "~", "!"}
    THEN ee_unary_op(At(ee.code, ee.head),
                     ee_unary([ee EXCEPT !.head = @ + 1]))
    ELSE ee_paren(ee)

ee_unary(ee) == ee_unary_at(ee_skip_spaces(ee))

RECURSIVE ee_muldiv_loop(_), ee_muldiv_from(_, _, _), ee_muldiv(_)
\* The operand of op is in e: the rest of that round of the loop of
\* ee_muldiv; op is "" for the operand before the loop
ee_muldiv_round(op, oival, e) ==
    IF e.error # EERR_NO_ERROR /\ TRUE THEN e
    ELSE ee_muldiv_loop(ee_skip_spaces(
         IF op = "*"
         THEN [e EXCEPT !.ival = e.ival * oival]
         ELSE IF op = "%"
         THEN IF e.ival = 0
              THEN [e EXCEPT !.error = EERR_DIVISION_BY_ZERO]
              ELSE [e EXCEPT !.ival = CMod(oival, e.ival)]
         ELSE IF op = "/"
         THEN IF e.ival = 0
              THEN [e EXCEPT !.error = EERR_DIVISION_BY_ZERO]
              ELSE [e EXCEPT !.ival = CDiv(oival, e.ival)]
         ELSE IF op = "\\"
         THEN IF e.ival = 0
              THEN [e EXCEPT !.error = EERR_DIVISION_BY_ZERO]
              ELSE [e EXCEPT !.ival = CDiv(oival, e.ival)]
         ELSE e))

ee_muldiv_from(ee, op, oival) == ee_muldiv_round(op, oival, ee_unary(ee))

\* The test of the loop of ee_muldiv
ee_muldiv_loop(ee) ==
    LET c == At(ee.code, ee.head)
        n == At(ee.code, ee.head + 1)
        op == IF ~ee_invalidpunct(n) /\ c \in {"*", "/", "\\", "%"}
              THEN c ELSE ""
    IN IF ee.head < ee.len /\ ee.error = EERR_NO_ERROR /\ op # ""
       THEN ee_muldiv_from([ee EXCEPT !.head = @ + 1], op, ee.ival)
       ELSE ee

ee_muldiv(ee) == ee_muldiv_from(ee, "", 0)

RECURSIVE ee_addsub_loop(_), ee_addsub_from(_, _, _), ee_addsub(_)
\* The operand of op is in e: the rest of that round of the loop of
\* ee_addsub; op is "" for the operand before the loop
ee_addsub_round(op, oival, e) ==
    IF e.error # EERR_NO_ERROR /\ op # "" THEN e
    ELSE ee_addsub_loop(ee_skip_spaces(
         IF op = "+"
         THEN [e EXCEPT !.ival = e.ival + oival]
         ELSE IF op = "-"
         THEN [e EXCEPT !.ival = oival - e.ival]
         ELSE e))

\* ee_addsub that reads its operands with ee_unary
ee_addsub_from_unary(ee, op, oival) ==
    ee_addsub_round(op, oival, ee_unary(ee))

ee_addsub_from(ee, op, oival) == ee_addsub_round(op, oival, ee_muldiv(ee))

\* The test of the loop of ee_addsub
ee_addsub_loop(ee) ==
    LET c == At(ee.code, ee.head)
        n == At(ee.code, ee.head + 1)
        op == IF ~ee_invalidpunct(n) /\ c \in {"+", "-"} THEN c ELSE ""
    IN IF ee.head < ee.len /\ ee.error = EERR_NO_ERROR /\ op # ""
       THEN ee_addsub_from([ee EXCEPT !.head = @ + 1], op, ee.ival)
       ELSE ee

ee_addsub(ee) == ee_addsub_from(ee, "", 0)

RECURSIVE ee_shift_loop(_), ee_shift_from(_, _, _), ee_shift(_)
\* The operand of op is in e: the rest of that round of the loop of
\* ee_shift; op is "" for the operand before the loop
ee_shift_round(op, oival, e) ==
    IF e.error # EERR_NO_ERROR /\ op # "" THEN e
    ELSE ee_shift_loop(ee_skip_spaces(
         IF op = "<"
         THEN [e EXCEPT !.ival = CShl(oival, e.ival, e.undef)]
         ELSE IF op = ">"
         THEN [e EXCEPT !.ival = CShr(oival, e.ival, e.undef)]
         ELSE e))

ee_shift_from(ee, op, oival) == ee_shift_round(op, oival, ee_addsub(ee))

\* The test of the loop of ee_shift
ee_shift_loop(ee) ==
    LET c == At(ee.code, ee.head)
        n == At(ee.code, ee.head + 1)
        op == IF (c = "<" /\ n = "<") \/ (c = ">" /\ n = ">") THEN c ELSE ""
    IN IF ee.head < ee.len /\ ee.error = EERR_NO_ERROR /\ op # ""
       THEN ee_shift_from([ee EXCEPT !.head = @ + 2], op, ee.ival)
       ELSE ee

ee_shift(ee) == ee_shift_from(ee, "", 0)

RECURSIVE ee_compare_loop(_), ee_compare_from(_, _, _), ee_compare(_)
\* The operand of op is in e: the rest of that round of the loop of
\* ee_compare; op is "" for the operand before the loop
ee_compare_round(op, oival, e) ==
    IF e.error # EERR_NO_ERROR /\ op # "" THEN e
    ELSE ee_compare_loop(ee_skip_spaces(
         IF op = "<"
         THEN [e EXCEPT !.ival = IF oival < e.ival THEN 1 ELSE 0]
         ELSE IF op = ">"
         THEN [e EXCEPT !.ival = IF oival > e.ival THEN 1 ELSE 0]
         ELSE IF op = "<="
         THEN [e EXCEPT !.ival = IF oival <= e.ival THEN 1 ELSE 0]
         ELSE IF op = ">="
         THEN [e EXCEPT !.ival = IF oival >= e.ival THEN 1 ELSE 0]
         ELSE e))

ee_compare_from(ee, op, oival) == ee_compare_round(op, oival, ee_shift(ee))

\* The test of the loop of ee_compare
ee_compare_loop(ee) ==
    LET c == At(ee.code, ee.head)
        n == At(ee.code, ee.head + 1)
        op == IF c = "<" /\ ~ee_invalidpunct(n) THEN "<"
              ELSE IF c = ">" /\ ~ee_invalidpunct(n) THEN ">"
              ELSE IF c = "<" /\ n = "=" THEN "<="
              ELSE IF c = ">" /\ n = "=" THEN ">="
              ELSE ""
    IN IF ee.head < ee.len /\ ee.error = EERR_NO_ERROR /\ op # ""
       THEN ee_compare_from([ee EXCEPT !.head = @ + (IF op \in {"<=", ">="} THEN 2 ELSE 1)], op, ee.ival)
       ELSE ee

ee_compare(ee) == ee_compare_from(ee, "", 0)

RECURSIVE ee_equals_loop(_), ee_equals_from(_, _, _), ee_equals(_)
\* The operand of op is in e: the rest of that round of the loop of
\* ee_equals; op is "" for the operand before the loop
ee_equals_round(op, oival, e) ==
    IF e.error # EERR_NO_ERROR /\ op # "" THEN e
    ELSE ee_equals_loop(ee_skip_spaces(
         IF op = "=="
         THEN [e EXCEPT !.ival = IF oival = e.ival THEN 1 ELSE 0]
         ELSE IF op = "!="
         THEN [e EXCEPT !.ival = IF oival # e.ival THEN 1 ELSE 0]
         ELSE e))

ee_equals_from(ee, op, oival) == ee_equals_round(op, oival, ee_compare(ee))

\* The test of the loop of ee_equals
ee_equals_loop(ee) ==
    LET c == At(ee.code, ee.head)
        n == At(ee.code, ee.head + 1)
        op == IF c = "=" /\ n = "=" THEN "=="
              ELSE IF c = "!" /\ n = "=" THEN "!=" ELSE ""
    IN IF ee.head < ee.len /\ ee.error = EERR_NO_ERROR /\ op # ""
       THEN ee_equals_from([ee EXCEPT !.head = @ + 2], op, ee.ival)
       ELSE ee

ee_equals(ee) == ee_equals_from(ee, "", 0)

RECURSIVE ee_bitand_loop(_), ee_bitand_from(_, _, _), ee_bitand(_)
\* The operand of op is in e: the rest of that round of the loop of
\* ee_bitand; op is "" for the operand before the loop
ee_bitand_round(op, oival, e) ==
    IF e.error # EERR_NO_ERROR /\ op # "" THEN e
    ELSE ee_bitand_loop(ee_skip_spaces(
         IF op = "&"
         THEN [e EXCEPT !.ival = CAnd(oival, e.ival)]
         ELSE e))

ee_bitand_from(ee, op, oival) == ee_bitand_round(op, oival, ee_equals(ee))

\* The test of the loop of ee_bitand
ee_bitand_loop(ee) ==
    LET c == At(ee.code, ee.head)
        n == At(ee.code, ee.head + 1)
        op == IF c = "&" /\ ~ee_invalidpunct(n) THEN c ELSE ""
    IN IF ee.head < ee.len /\ ee.error = EERR_NO_ERROR /\ op # ""
       THEN ee_bitand_from([ee EXCEPT !.head = @ + 1], op, ee.ival)
       ELSE ee

ee_bitand(ee) == ee_bitand_from(ee, "", 0)

RECURSIVE ee_bitor_loop(_), ee_bitor_from(_, _, _), ee_bitor(_)
\* The operand of op is in e: the rest of that round of the loop of
\* ee_bitor; op is "" for the operand before the loop
ee_bitor_round(op, oival, e) ==
    IF e.error # EERR_NO_ERROR /\ op # "" THEN e
    ELSE ee_bitor_loop(ee_skip_spaces(
         IF op = "|"
         THEN [e EXCEPT !.ival = COr(oival, e.ival)]
         ELSE e))

ee_bitor_from(ee, op, oival) == ee_bitor_round(op, oival, ee_bitand(ee))

\* The test of the loop of ee_bitor
ee_bitor_loop(ee) ==
    LET c == At(ee.code, ee.head)
        n == At(ee.code, ee.head + 1)
        op == IF c = "|" /\ ~ee_invalidpunct(n) THEN c ELSE ""
    IN IF ee.head < ee.len /\ ee.error = EERR_NO_ERROR /\ op # ""
       THEN ee_bitor_from([ee EXCEPT !.head = @ + 1], op, ee.ival)
       ELSE ee

ee_bitor(ee) == ee_bitor_from(ee, "", 0)

RECURSIVE ee_logand_loop(_), ee_logand_from(_, _, _), ee_logand(_)
\* The operand of op is in e: the rest of that round of the loop of
\* ee_logand; op is "" for the operand before the loop
ee_logand_round(op, oival, e) ==
    IF e.error # EERR_NO_ERROR /\ op # "" THEN e
    ELSE ee_logand_loop(ee_skip_spaces(
         IF op = "&&"
         THEN [e EXCEPT !.ival = IF oival # 0 /\ e.ival # 0 THEN 1 ELSE 0]
         ELSE e))

ee_logand_from(ee, op, oival) == ee_logand_round(op, oival, ee_bitor(ee))

\* The test of the loop of ee_logand
ee_logand_loop(ee) ==
    LET c == At(ee.code, ee.head)
        n == At(ee.code, ee.head + 1)
        op == IF c = "&" /\ n = "&" THEN "&&" ELSE ""
    IN IF ee.head < ee.len /\ ee.error = EERR_NO_ERROR /\ op # ""
       THEN ee_logand_from([ee EXCEPT !.head = @ + 2], op, ee.ival)
       ELSE ee

ee_logand(ee) == ee_logand_from(ee, "", 0)

RECURSIVE ee_logor_loop(_), ee_logor_from(_, _, _), ee_logor(_)
\* The operand of op is in e: the rest of that round of the loop of
\* ee_logor; op is "" for the operand before the loop
ee_logor_round(op, oival, e) ==
    IF e.error # EERR_NO_ERROR /\ op # "" THEN e
    ELSE ee_logor_loop(ee_skip_spaces(
         IF op = "||"
         THEN [e EXCEPT !.ival = IF oival # 0 \/ e.ival # 0 THEN 1 ELSE 0]
         ELSE e))

ee_logor_from(ee, op, oival) == ee_logor_round(op, oival, ee_logand(ee))

\* The test of the loop of ee_logor
ee_logor_loop(ee) ==
    LET c == At(ee.code, ee.head)
        n == At(ee.code, ee.head + 1)
        op == IF c = "|" /\ n = "|" THEN "||" ELSE ""
    IN IF ee.head < ee.len /\ ee.error = EERR_NO_ERROR /\ op # ""
       THEN ee_logor_from([ee EXCEPT !.head = @ + 2], op, ee.ival)
       ELSE ee

ee_logor(ee) == ee_logor_from(ee, "", 0)

\* ee_expr after ee_logor
ee_expr_end(e) ==
    IF e.error = EERR_INVALID_EXPRESSION
    THEN [e EXCEPT !.error = EERR_NO_ERROR, !.ival = 1]
    ELSE e

ee_expr(ee) == ee_expr_end(ee_logor(ee))

\* "%zd"
RECURSIVE DecimalOf(_)
DecimalOf(n) ==
    IF n < 10 THEN <<Digit(n)>> ELSE Append(DecimalOf(n \div 10), Digit(n % 10))

lil_alloc_integer(num) ==
    IF num < 0 THEN <<"-">> \o DecimalOf(-num) ELSE DecimalOf(num)

\* The result of lil_eval_expr from the evaluator's final state
EvalResult(l, ee) ==
    IF ee.error = EERR_DIVISION_BY_ZERO
    THEN [l |-> lil_set_error(l, S_division_by_zero), r |-> NULL]
    ELSE IF ee.error = EERR_SYNTAX_ERROR
    THEN [l |-> lil_set_error(l, S_syntax_error), r |-> NULL]
    ELSE IF ee.error # EERR_NO_ERROR THEN [l |-> l, r |-> NULL]
    ELSE [l |-> l, r |-> lil_alloc_integer(ee.ival)]

\* lil_eval_expr from the substituted code on
EvalSubst(l, code) ==
    IF l.error # ERROR_NOERROR THEN [l |-> l, r |-> NULL]
    ELSE IF Len(lil_to_string(code)) = 0
    THEN [l |-> l, r |-> lil_alloc_integer(0)]
    ELSE EvalResult(l, ee_expr([code |-> code, head |-> 0, len |-> Len(code),
                                ival |-> 0, error |-> EERR_NO_ERROR,
                                undef |-> l.undef]))

\* lil_eval_expr after the poll of ctrlc()
EvalPolled(c, code) ==
    IF c.r THEN [l |-> lil_set_error(c.l, S_interrupted), r |-> NULL]
    ELSE Bind(lil_subst_to_value(c.l, code), LAMBDA s : EvalSubst(s.l, s.r))

lil_eval_expr(l, code) == EvalPolled(ctrlc(l), code)

-----------------------------------------------------------------------------
(* The built-in commands *)

\* "%09u"
RECURSIVE Pow10(_)
Pow10(k) == IF k = 0 THEN 1 ELSE 10 * Pow10(k - 1)

Pad9(i) == [k \in 1..9 |-> Digit((i \div Pow10(9 - k)) % 10)]

RECURSIVE UnusedFrom(_, _, _)
UnusedFrom(l, part, i) ==
    LET name == S_un_ \o part \o <<"!">> \o Pad9(i) \o S_nu_ IN
    IF lil_find_cmd(l, name) # 0 \/ lil_find_var(l, l.env, name) # NULLVAR
    THEN UnusedFrom(l, part, i + 1)
    ELSE name

lil_unused_name(l, part) == UnusedFrom(l, part, 0)

\* fnc_func storing the Function; fargs is lil_subst_to_list's outcome
StoreFunc(fargs, name, code) ==
    Bind(add_func(fargs.l, lil_to_string(name)), LAMBDA a :
    [l |-> [a.l EXCEPT !.funcs[a.r].argnames = fargs.r,
                       !.funcs[a.r].code = lil_clone_value(code)],
     r |-> name])

fnc_func(l, argv) ==
    IF Len(argv) < 1 THEN [l |-> l, r |-> NULL]
    ELSE IF Len(argv) >= 3
    THEN Bind(lil_subst_to_list(l, argv[2]), LAMBDA fargs :
         StoreFunc(fargs, lil_clone_value(argv[1]), argv[3]))
    ELSE Bind(lil_unused_name(l, S_anonymous_function), LAMBDA name :
         IF Len(argv) < 2
         THEN Bind(lil_subst_to_list(l, S_args), LAMBDA fargs :
              StoreFunc(fargs, name, argv[1]))
         ELSE Bind(lil_subst_to_list(l, argv[1]), LAMBDA fargs :
              StoreFunc(fargs, name, argv[2])))

\* The loop of fnc_quote and fnc_eval that joins the arguments with spaces
RECURSIVE JoinFrom(_, _)
JoinFrom(argv, i) ==
    IF i > Len(argv) THEN <<>>
    ELSE (IF i > 1 THEN <<" ">> ELSE <<>>)
         \o lil_append_val(<<>>, argv[i]) \o JoinFrom(argv, i + 1)

fnc_quote(l, argv) ==
    [l |-> l, r |-> IF Len(argv) < 1 THEN NULL ELSE JoinFrom(argv, 1)]

\* The loop of fnc_set; i counts from 0 as in the C code
RECURSIVE SetLoop(_, _, _, _, _)
SetLoop(l, argv, i, var, access) ==
    IF i < Len(argv)
    THEN IF Len(argv) = i + 1
         THEN Bind(lil_get_var(l, lil_to_string(argv[i + 1])), LAMBDA g :
              [l |-> g.l, r |-> lil_clone_value(g.r)])
         ELSE Bind(lil_set_var(l, lil_to_string(argv[i + 1]),
                               argv[i + 2], access), LAMBDA sv :
              SetLoop(sv.l, argv, i + 2, sv.r, access))
    ELSE [l |-> l,
          r |-> IF var # NULLVAR THEN lil_clone_value(VarOf(l, var).v)
                ELSE NULL]

fnc_set(l, argv) ==
    IF Len(argv) = 0 THEN [l |-> l, r |-> NULL]
    ELSE IF lil_to_string(argv[1]) = S_global
    THEN SetLoop(l, argv, 1, NULLVAR, LIL_SETVAR_GLOBAL)
    ELSE SetLoop(l, argv, 0, NULLVAR, LIL_SETVAR_LOCAL)

RECURSIVE LocalLoop(_, _, _)
LocalLoop(l, argv, i) ==
    IF i > Len(argv) THEN l
    ELSE LET varname == lil_to_string(argv[i]) IN
         LocalLoop(IF lil_find_local_var(l, l.env, varname) = NULLVAR
                   THEN lil_set_var(l, varname, l.empty,
                                    LIL_SETVAR_LOCAL_NEW).l
                   ELSE l,
                   argv, i + 1)

fnc_local(l, argv) == [l |-> LocalLoop(l, argv, 1), r |-> NULL]

fnc_rename(l, argv) ==
    IF Len(argv) < 2 THEN [l |-> l, r |-> NULL]
    ELSE LET oldname == lil_to_string(argv[1])
             newname == lil_to_string(argv[2])
             func == lil_find_cmd(l, oldname)
         IN
         IF func = 0
         THEN [l |-> lil_set_error_at(l, l.head,
                        S_unknown_function_ \o <<"'">> \o oldname
                                            \o <<"'">>),
               r |-> NULL]
         ELSE [r |-> lil_alloc_string(l.funcs[func].name),
               l |-> IF Len(newname) > 0
                     THEN [l EXCEPT !.cmdmap = hm_put(hm_put(@, oldname, 0),
                                                      newname, func),
                                    !.funcs[func].name = newname]
                     ELSE del_func(l, func)]

\* lil_list_get: a null Value past the end of the List; index counts from 0
lil_list_get(list, index) ==
    IF index >= Len(list) THEN NULL ELSE list[index + 1]

\* The loop of fnc_lmap; i counts from 1 as in the C code
RECURSIVE LmapLoop(_, _, _, _)
LmapLoop(l, list, argv, i) ==
    IF i < Len(argv)
    THEN LmapLoop(lil_set_var(l, lil_to_string(argv[i + 1]),
                              lil_list_get(list, i - 1),
                              LIL_SETVAR_LOCAL).l,
                  list, argv, i + 1)
    ELSE l

fnc_lmap(l, argv) ==
    IF Len(argv) < 2 THEN [l |-> l, r |-> NULL]
    ELSE Bind(lil_subst_to_list(l, argv[1]), LAMBDA list :
         [l |-> LmapLoop(list.l, list.r, argv, 1), r |-> NULL])

fnc_eval(l, argv) ==
    IF Len(argv) = 1 THEN lil_parse_value(l, argv[1], 0)
    ELSE IF Len(argv) > 1 THEN lil_parse_value(l, JoinFrom(argv, 1), 0)
    ELSE [l |-> l, r |-> NULL]

fnc_expr(l, argv) ==
    IF Len(argv) = 0 THEN [l |-> l, r |-> NULL]
    ELSE lil_eval_expr(l, IF Len(argv) = 1 THEN argv[1]
                          ELSE JoinFrom(argv, 1))

\* The loop of lil_to_boolean
RECURSIVE BooleanFrom(_, _, _)
BooleanFrom(str, i, dots) ==
    IF i > Len(str) THEN 0
    ELSE IF str[i] # "0" /\ str[i] # "." THEN 1
    ELSE IF str[i] = "." /\ dots # 0 THEN 1
    ELSE BooleanFrom(str, i + 1, IF str[i] = "." THEN 1 ELSE dots)

lil_to_boolean(val) == BooleanFrom(lil_to_string(val), 1, 0)

\* "if not", "while not"
BaseOf(argv) == IF lil_to_string(argv[1]) = S_not THEN 1 ELSE 0

\* v after "if (not) v = !v"
Holds(val, not) == (lil_to_boolean(val) # 0) # (not = 1)

fnc_if(l, argv) ==
    IF Len(argv) < 1 THEN [l |-> l, r |-> NULL]
    ELSE IF Len(argv) < BaseOf(argv) + 2 THEN [l |-> l, r |-> NULL]
    ELSE Bind(lil_eval_expr(l, argv[BaseOf(argv) + 1]), LAMBDA val :
         IF val.r = NULL \/ val.l.error # ERROR_NOERROR
         THEN [l |-> val.l, r |-> NULL]
         ELSE LET code == IF Holds(val.r, BaseOf(argv))
                          THEN BaseOf(argv) + 2
                          ELSE IF Len(argv) > BaseOf(argv) + 2
                          THEN BaseOf(argv) + 3 ELSE 0
              IN IF code = 0 THEN [l |-> val.l, r |-> NULL]
                 ELSE lil_parse_value(val.l, argv[code], 0))

\* The loop of fnc_while
RECURSIVE WhileLoop(_, _, _)
WhileLoop(l, argv, r) ==
    IF l.error # ERROR_NOERROR \/ l.envs[l.env].breakrun # 0
    THEN [l |-> l, r |-> r]
    ELSE Bind(lil_eval_expr(l, argv[BaseOf(argv) + 1]), LAMBDA val :
         IF val.r = NULL \/ val.l.error # ERROR_NOERROR
         THEN [l |-> val.l, r |-> NULL]
         ELSE IF ~Holds(val.r, BaseOf(argv)) THEN [l |-> val.l, r |-> r]
         ELSE Bind(lil_parse_value(val.l, argv[BaseOf(argv) + 2], 0),
                   LAMBDA p : WhileLoop(p.l, argv, p.r)))

fnc_while(l, argv) ==
    IF Len(argv) < 1 THEN [l |-> l, r |-> NULL]
    ELSE IF Len(argv) < BaseOf(argv) + 2 THEN [l |-> l, r |-> NULL]
    ELSE WhileLoop(l, argv, NULL)

\* fnc_for from the evaluation of argv[part] on: of the initialisation
\* (part 1), of the body (4) or of the step (3)
RECURSIVE ForFrom(_, _, _, _)
\* The test of the loop of fnc_for and the evaluation of the condition
ForTest(l, argv, r) ==
    IF l.error # ERROR_NOERROR \/ l.envs[l.env].breakrun # 0
    THEN [l |-> l, r |-> r]
    ELSE Bind(lil_eval_expr(l, argv[2]), LAMBDA val :
         IF val.r = NULL \/ val.l.error # ERROR_NOERROR
         THEN [l |-> val.l, r |-> NULL]
         ELSE IF lil_to_boolean(val.r) = 0 THEN [l |-> val.l, r |-> r]
         ELSE ForFrom(val.l, argv, 4, r))

ForFrom(l, argv, part, r) ==
    Bind(lil_parse_value(l, argv[part], 0), LAMBDA p :
    IF part = 4 THEN ForFrom(p.l, argv, 3, p.r)
    ELSE ForTest(p.l, argv, r))

fnc_for(l, argv) ==
    IF Len(argv) < 4 THEN [l |-> l, r |-> NULL]
    ELSE ForFrom(l, argv, 1, NULL)

fnc_topeval(l, argv) ==
    LET thisenv == l.env
        thisdownenv == l.downenv
    IN Bind(fnc_eval([l EXCEPT !.env = l.rootenv, !.downenv = thisenv],
                     argv), LAMBDA e :
       [l |-> [e.l EXCEPT !.downenv = thisdownenv, !.env = thisenv],
        r |-> e.r])

\* fnc_upeval that leaves the "down" slot pointing at its own frame
fnc_upeval_keeps_down(l, argv) ==
    LET thisenv == l.env
    IN IF l.rootenv = thisenv THEN fnc_eval(l, argv)
       ELSE Bind(fnc_eval([l EXCEPT !.env = l.envs[thisenv].parent,
                                    !.downenv = thisenv], argv), LAMBDA e :
            [l |-> [e.l EXCEPT !.env = thisenv], r |-> e.r])

fnc_upeval(l, argv) ==
    LET thisenv == l.env
        thisdownenv == l.downenv
    IN IF l.rootenv = thisenv THEN fnc_eval(l, argv)
       ELSE Bind(fnc_eval([l EXCEPT !.env = l.envs[thisenv].parent,
                                    !.downenv = thisenv], argv), LAMBDA e :
            [l |-> [e.l EXCEPT !.env = thisenv, !.downenv = thisdownenv],
             r |-> e.r])

fnc_downeval(l, argv) ==
    LET upenv == l.env
        downenv == l.downenv
    IN IF downenv = 0 THEN fnc_eval(l, argv)
       ELSE Bind(fnc_eval([l EXCEPT !.downenv = 0, !.env = downenv], argv),
                 LAMBDA e :
            [l |-> [e.l EXCEPT !.downenv = downenv, !.env = upenv],
             r |-> e.r])

\* fnc_return that forgets to stop the run of the body
fnc_return_runs_on(l, argv) ==
    LET v == IF Len(argv) < 1 THEN NULL ELSE lil_clone_value(argv[1]) IN
    [l |-> [l EXCEPT !.envs[l.env].retval = v,
                     !.envs[l.env].retval_set = 1],
     r |-> v]

fnc_return(l, argv) ==
    LET v == IF Len(argv) < 1 THEN NULL ELSE lil_clone_value(argv[1]) IN
    [l |-> [l EXCEPT !.envs[l.env].breakrun = 1,
                     !.envs[l.env].retval = v,
                     !.envs[l.env].retval_set = 1],
     r |-> v]

fnc_result(l, argv) ==
    Bind(IF Len(argv) > 0
         THEN [l EXCEPT !.envs[l.env].retval = lil_clone_value(argv[1]),
                        !.envs[l.env].retval_set = 1]
         ELSE l, LAMBDA l1 :
    [l |-> l1,
     r |-> IF l1.envs[l1.env].retval_set # 0
           THEN lil_clone_value(l1.envs[l1.env].retval)
           ELSE NULL])

\* fnc_try that leaves the error slot as A set it
fnc_try_keeps_error(l, argv) ==
    IF Len(argv) < 1 THEN [l |-> l, r |-> NULL]
    ELSE IF l.error # ERROR_NOERROR THEN [l |-> l, r |-> NULL]
    ELSE Bind(lil_parse_value(l, argv[1], 0), LAMBDA a :
         IF a.l.error # ERROR_NOERROR
         THEN Bind(Log(a.l, [ev |-> "caught", kind |-> a.l.error]),
                   LAMBDA l1 :
              IF Len(argv) > 1 THEN lil_parse_value(l1, argv[2], 0)
              ELSE [l |-> l1, r |-> NULL])
         ELSE a)

fnc_try(l, argv) ==
    IF Len(argv) < 1 THEN [l |-> l, r |-> NULL]
    ELSE IF l.error # ERROR_NOERROR THEN [l |-> l, r |-> NULL]
    ELSE Bind(lil_parse_value(l, argv[1], 0), LAMBDA a :
         IF a.l.error # ERROR_NOERROR
         THEN Bind(Log([a.l EXCEPT !.error = ERROR_NOERROR],
                       [ev |-> "caught", kind |-> a.l.error]), LAMBDA l1 :
              IF Len(argv) > 1 THEN lil_parse_value(l1, argv[2], 0)
              ELSE [l |-> l1, r |-> NULL])
         ELSE a)

fnc_error(l, argv) ==
    [l |-> lil_set_error(l, IF Len(argv) > 0 THEN lil_to_string(argv[1])
                            ELSE NULL),
     r |-> NULL]

\* The loops of fnc_reflect over the Variables of the Environments from env
\* up to the root, and over the commands
RECURSIVE ReflectVars(_, _)
ReflectVars(l, env) ==
    IF env = 0 THEN <<>>
    ELSE [i \in 1..Len(l.envs[env].var) |-> l.envs[env].var[i].n]
         \o ReflectVars(l, l.envs[env].parent)

RECURSIVE ReflectHasVar(_, _, _)
ReflectHasVar(l, env, target) ==
    IF env = 0 THEN FALSE
    ELSE \/ hm_has(l.envs[env].varmap, target)
         \/ ReflectHasVar(l, l.envs[env].parent, target)

\* The Environment that `reflect this` and `reflect name` look at: the
\* nearest one that is the root, a catcher's or a Function's
RECURSIVE ReflectFrame(_, _)
ReflectFrame(l, env) ==
    IF env # l.rootenv /\ l.envs[env].catcher_for = NULL
       /\ l.envs[env].func = 0
    THEN ReflectFrame(l, l.envs[env].parent)
    ELSE env

\* The return of fnc_reflect.  owner tells whose the returned Value is:
\* "fresh" when it was allocated or cloned for the caller, "none" for a
\* null pointer, else the object that holds the very same pointer.
Reflected(l, type, r, owner) ==
    [l |-> Log(l, [ev |-> "reflect", type |-> type, val |-> r,
                   owner |-> IF r = NULL THEN "none" ELSE owner]),
     r |-> r]

\* `reflect this` from the Environment found on
ReflectThis(l, env) ==
    IF l.envs[env].catcher_for # NULL
    THEN Reflected(l, S_this, lil_alloc_string(l.catcher), "fresh")
    ELSE IF env = l.rootenv
    THEN Reflected(l, S_this, lil_alloc_string(l.rootcode), "fresh")
    ELSE Reflected(l, S_this, l.funcs[l.envs[env].func].code, "Function")

\* `reflect name` from the Environment found on
ReflectName(l, env) ==
    IF l.envs[env].catcher_for # NULL
    THEN Reflected(l, S_name, l.envs[env].catcher_for, "List")
    ELSE IF env = l.rootenv
    THEN Reflected(l, S_name, NULL, "none")
    ELSE Reflected(l, S_name,
                   lil_alloc_string(l.funcs[l.envs[env].func].name),
                   "fresh")

\* fnc_reflect for the kinds that take the name of a command
ReflectFunc(l, type, func) ==
    IF type = S_args
    THEN IF func = 0 \/ l.funcs[func].argnames = NULL
         THEN Reflected(l, type, NULL, "none")
         ELSE Reflected(l, type,
                        lil_list_to_value(l.funcs[func].argnames, 1),
                        "fresh")
    ELSE IF func = 0 \/ l.funcs[func].proc # ""
         THEN Reflected(l, type, NULL, "none")
         ELSE Reflected(l, type, lil_clone_value(l.funcs[func].code),
                        "fresh")

\* fnc_reflect for the kinds that ask whether something exists
ReflectHas(l, type, target) ==
    Reflected(l, type,
              IF \/ type = S_has_func /\ hm_has(l.cmdmap, target)
                 \/ type = S_has_var /\ ReflectHasVar(l, l.env, target)
                 \/ /\ type = S_has_global
                    /\ \E i \in 1..Len(l.envs[l.rootenv].var) :
                          l.envs[l.rootenv].var[i].n = target
              THEN lil_alloc_string(<<"1">>) ELSE NULL,
              "fresh")

fnc_reflect(l, argv) ==
    IF Len(argv) = 0 THEN [l |-> l, r |-> NULL]
    ELSE LET type == lil_to_string(argv[1]) IN
    IF type = S_version
    THEN Reflected(l, type, lil_alloc_string(LIL_VERSION_STRING), "fresh")
    ELSE IF type \in {S_args, S_body}
    THEN IF Len(argv) < 2 THEN Reflected(l, type, NULL, "none")
         ELSE ReflectFunc(l, type, lil_find_cmd(l, lil_to_string(argv[2])))
    ELSE IF type = S_func_count
    THEN Reflected(l, type, lil_alloc_integer(Len(l.cmd)), "fresh")
    ELSE IF type = S_funcs
    THEN Reflected(l, type,
                   lil_list_to_value([i \in 1..Len(l.cmd) |->
                                         l.funcs[l.cmd[i]].name], 1),
                   "fresh")
    ELSE IF type = S_vars
    THEN Reflected(l, type, lil_list_to_value(ReflectVars(l, l.env), 1),
                   "fresh")
    ELSE IF type = S_globals
    THEN Reflected(l, type, lil_list_to_value(ReflectVars(l, l.rootenv), 1),
                   "fresh")
    ELSE IF type \in {S_has_func, S_has_var, S_has_global}
    THEN IF Len(argv) = 1 THEN Reflected(l, type, NULL, "none")
         ELSE ReflectHas(l, type, lil_to_string(argv[2]))
    ELSE IF type = S_error
    THEN Reflected(l, type,
                   IF l.err_msg # NULL THEN lil_alloc_string(l.err_msg)
                   ELSE NULL, "fresh")
    ELSE IF type = S_dollar_prefix
    THEN Reflected(IF Len(argv) = 1 THEN l
                   ELSE [l EXCEPT !.dollarprefix = lil_to_string(argv[2])],
                   type, lil_alloc_string(l.dollarprefix), "fresh")
    ELSE IF type = S_this THEN ReflectThis(l, ReflectFrame(l, l.env))
    ELSE IF type = S_name THEN ReflectName(l, ReflectFrame(l, l.env))
    ELSE Reflected(l, type, NULL, "none")

fnc_catcher(l, argv) ==
    IF Len(argv) = 0 THEN [l |-> l, r |-> lil_alloc_string(l.catcher)]
    ELSE LET catcher == lil_to_string(argv[1]) IN
         [l |-> [l EXCEPT !.catcher = IF Len(catcher) > 0 THEN catcher
                                      ELSE NULL],
          r |-> NULL]

RECURSIVE WatchLoop(_, _, _, _)
WatchLoop(l, argv, wcode, i) ==
    IF i + 1 < Len(argv)
    THEN LET vname == lil_to_string(argv[i + 1]) IN
         IF Len(vname) = 0 THEN WatchLoop(l, argv, wcode, i + 1)
         ELSE Bind(lil_find_var(l, l.env, vname), LAMBDA found :
              Bind(IF found = NULLVAR
                   THEN lil_set_var(l, vname, NULL, LIL_SETVAR_LOCAL_NEW)
                   ELSE [l |-> l, r |-> found], LAMBDA sv :
              WatchLoop([sv.l EXCEPT !.envs[sv.r.env].var[sv.r.idx].w =
                             IF Len(wcode) > 0 THEN wcode ELSE NULL],
                        argv, wcode, i + 1)))
    ELSE l

fnc_watch(l, argv) ==
    IF Len(argv) < 2 THEN [l |-> l, r |-> NULL]
    ELSE [l |-> WatchLoop(l, argv, lil_to_string(argv[Len(argv)]), 0),
          r |-> NULL]

\* The loop of fnc_foreach over the items of the list
RECURSIVE ForeachLoop(_, _, _, _, _, _)
ForeachLoop(l, varname, list, code, rlist, i) ==
    IF i > Len(list) THEN [l |-> l, r |-> rlist]
    ELSE Bind(lil_set_var(l, varname, list[i], LIL_SETVAR_LOCAL_ONLY),
              LAMBDA sv :
         Bind(lil_parse_value(sv.l, code, 0), LAMBDA rv :
         Bind(IF Len(rv.r) > 0 THEN Append(rlist, rv.r) ELSE rlist,
              LAMBDA rl :
         IF rv.l.envs[rv.l.env].breakrun # 0 \/ rv.l.error # ERROR_NOERROR
         THEN [l |-> rv.l, r |-> rl]
         ELSE ForeachLoop(rv.l, varname, list, code, rl, i + 1))))

fnc_foreach(l, argv) ==
    IF Len(argv) < 2 THEN [l |-> l, r |-> NULL]
    ELSE LET three == Len(argv) >= 3
             varname == IF three THEN lil_to_string(argv[1]) ELSE S_i
         IN Bind(lil_subst_to_list(l, argv[IF three THEN 2 ELSE 1]),
                 LAMBDA list :
            Bind(ForeachLoop(list.l, varname, list.r,
                             argv[IF three THEN 3 ELSE 2], <<>>, 1),
                 LAMBDA f :
            [l |-> f.l, r |-> lil_list_to_value(f.r, 1)]))

\* The loops of fnc_enveval that read the named Variables into varvalues
RECURSIVE ReadVars(_, _, _, _)
ReadVars(l, names, varvalues, i) ==
    IF i > Len(names) THEN [l |-> l, r |-> varvalues]
    ELSE Bind(lil_get_var(l, lil_to_string(names[i])), LAMBDA g :
         ReadVars(g.l, names, Append(varvalues, lil_clone_value(g.r)),
                  i + 1))

\* and that assign varvalues to the named Variables
RECURSIVE WriteVars(_, _, _, _, _)
WriteVars(l, names, varvalues, local, i) ==
    IF i > Len(names) THEN l
    ELSE WriteVars(lil_set_var(l, lil_to_string(names[i]), varvalues[i],
                               local).l,
                   names, varvalues, local, i + 1)

\* fnc_enveval that copies the invars back whatever outvars names
EnvevalBody_invars(l, invars, varvalues, back, code) ==
    Bind(lil_parse_value(WriteVars(lil_push_env(l), invars, varvalues,
                                   LIL_SETVAR_LOCAL_NEW, 1), code, 0),
         LAMBDA p :
    Bind(ReadVars(p.l, invars, <<>>, 1), LAMBDA out :
    [l |-> WriteVars(lil_pop_env(out.l), invars, out.r, LIL_SETVAR_LOCAL, 1),
     r |-> p.r]))

\* fnc_enveval from lil_push_env on; back: the names to copy back
EnvevalBody(l, invars, varvalues, back, code) ==
    Bind(lil_parse_value(WriteVars(lil_push_env(l), invars, varvalues,
                                   LIL_SETVAR_LOCAL_NEW, 1), code, 0),
         LAMBDA p :
    Bind(ReadVars(p.l, back, <<>>, 1), LAMBDA out :
    [l |-> WriteVars(lil_pop_env(out.l), back, out.r, LIL_SETVAR_LOCAL, 1),
     r |-> p.r]))

fnc_enveval(l, argv) ==
    IF Len(argv) < 1 THEN [l |-> l, r |-> NULL]
    ELSE IF Len(argv) = 1
    THEN Bind(lil_parse_value(lil_push_env(l), argv[1], 0), LAMBDA p :
         [r |-> p.r, l |-> lil_pop_env(p.l)])
    ELSE Bind(lil_subst_to_list(l, argv[1]), LAMBDA invars :
         Bind(ReadVars(invars.l, invars.r, <<>>, 1), LAMBDA in :
         IF Len(argv) > 2
         THEN Bind(lil_subst_to_list(in.l, argv[2]), LAMBDA outvars :
              EnvevalBody(outvars.l, invars.r, in.r, outvars.r, argv[3]))
         ELSE EnvevalBody(in.l, invars.r, in.r, invars.r, argv[2])))

\* The commands of register_stdcmds that this model gives a body, in the
\* order of their registration
StdCmds ==
    <<[name |-> <<"e", "v", "a", "l">>, proc |-> "fnc_eval"],
      [name |-> <<"e", "x", "p", "r">>, proc |-> "fnc_expr"],
      [name |-> <<"f", "o", "r">>, proc |-> "fnc_for"],
      [name |-> <<"f", "o", "r", "e", "a", "c", "h">>, proc |-> "fnc_foreach"],
      [name |-> <<"f", "u", "n", "c">>, proc |-> "fnc_func"],
      [name |-> <<"i", "f">>, proc |-> "fnc_if"],
      [name |-> <<"l", "o", "c", "a", "l">>, proc |-> "fnc_local"],
      [name |-> <<"r", "e", "t", "u", "r", "n">>, proc |-> "fnc_return"],
      [name |-> <<"s", "e", "t">>, proc |-> "fnc_set"],
      [name |-> <<"t", "r", "y">>, proc |-> "fnc_try"],
      [name |-> <<"w", "h", "i", "l", "e">>, proc |-> "fnc_while"],
      [name |-> <<"c", "a", "t", "c", "h", "e", "r">>, proc |-> "fnc_catcher"],
      [name |-> <<"d", "o", "w", "n", "e", "v", "a", "l">>, proc |-> "fnc_downeval"],
      [name |-> <<"e", "n", "v", "e", "v", "a", "l">>, proc |-> "fnc_enveval"],
      [name |-> <<"e", "r", "r", "o", "r">>, proc |-> "fnc_error"],
      [name |-> <<"j", "a", "i", "l", "e", "v", "a", "l">>, proc |-> "fnc_jaileval"],
      [name |-> <<"l", "m", "a", "p">>, proc |-> "fnc_lmap"],
      [name |-> <<"q", "u", "o", "t", "e">>, proc |-> "fnc_quote"],
      [name |-> S_reflect, proc |-> "fnc_reflect"],
      [name |-> <<"r", "e", "n", "a", "m", "e">>, proc |-> "fnc_rename"],
      [name |-> <<"r", "e", "s", "u", "l", "t">>, proc |-> "fnc_result"],
      [name |-> <<"t", "o", "p", "e", "v", "a", "l">>, proc |-> "fnc_topeval"],
      [name |-> <<"u", "p", "e", "v", "a", "l">>, proc |-> "fnc_upeval"],
      [name |-> <<"w", "a", "t", "c", "h">>, proc |-> "fnc_watch"]>>

RECURSIVE RegisterFrom(_, _)
RegisterFrom(l, i) ==
    IF i > Len(StdCmds) THEN l
    ELSE Bind(lil_register(l, StdCmds[i].name, StdCmds[i].proc),
              LAMBDA l1 : RegisterFrom(l1, i + 1))

register_stdcmds(l) ==
    LET l1 == RegisterFrom(l, 1) IN [l1 EXCEPT !.syscmds = Len(l1.cmd)]

\* struct lil at the end of a call
StructOf(l) ==
    [code |-> l.code, rootcode |-> l.rootcode, clen |-> l.clen,
     head |-> l.head, ignoreeol |-> l.ignoreeol, cmd |-> l.cmd,
     syscmds |-> l.syscmds, cmdmap |-> l.cmdmap, catcher |-> l.catcher,
     in_catcher |-> l.in_catcher, dollarprefix |-> l.dollarprefix,
     env |-> l.env, rootenv |-> l.rootenv, downenv |-> l.downenv,
     empty |-> l.empty, error |-> l.error, err_head |-> l.err_head,
     err_msg |-> l.err_msg, parse_depth |-> l.parse_depth,
     envs |-> l.envs, funcs |-> l.funcs]

\* lil_new: calloc, then the root Environment, the empty Value, the
\* dollar prefix and the standard commands
lil_new ==
    StructOf(register_stdcmds(
        [code |-> NULL, rootcode |-> NULL, clen |-> 0, head |-> 0,
         ignoreeol |-> 0, cmd |-> <<>>, syscmds |-> 0, cmdmap |-> <<>>,
         catcher |-> NULL, in_catcher |-> 0, dollarprefix |-> S_set_,
         env |-> 1, rootenv |-> 1, downenv |-> 0, empty |-> <<>>,
         error |-> ERROR_NOERROR, err_head |-> 0, err_msg |-> NULL,
         parse_depth |-> 0, envs |-> <<lil_alloc_env(0)>>, funcs |-> <<>>,
         hostenv |-> {}, trace |-> <<>>, polls |-> 0, npid |-> 0,
         inst |-> 0]))

\* The Variables of every Environment, as the arrays hold them
VarsOf(envs) == [e \in 1..Len(envs) |-> envs[e].var]

\* The loop of fnc_jaileval over the commands the host has registered
RECURSIVE CopyProcs(_, _, _)
CopyProcs(l, sublil, i) ==
    IF i > Len(l.cmd) THEN sublil
    ELSE CopyProcs(l, IF l.funcs[l.cmd[i]].proc = "" THEN sublil
                      ELSE lil_register(sublil, l.funcs[l.cmd[i]].name,
                                        l.funcs[l.cmd[i]].proc), i + 1)

\* What reading each of a few Variables gives in interpreter l
ReadNames == {<<"f", "o", "o">>, <<"x">>}
ReadsOf(l) == [n \in ReadNames |-> lil_get_var(l, n).r]

\* fnc_jaileval: a new interpreter, with the host's commands unless "clean"
\* is asked for, runs the code and is freed.  It has its own commands,
\* Environments and error slot; the environment store and the interrupt
\* predicate are the host's.
fnc_jaileval(l, argv) ==
    IF Len(argv) = 0 THEN [l |-> l, r |-> NULL]
    ELSE LET base == IF lil_to_string(argv[1]) = S_clean THEN 1 ELSE 0 IN
         IF base = 1 /\ Len(argv) = 1 THEN [l |-> l, r |-> NULL]
         ELSE Bind(lil_new @@ [hostenv |-> l.hostenv, trace |-> l.trace,
                               polls |-> l.polls, npid |-> l.npid,
                               inst |-> l.inst + 1, undef |-> l.undef],
                   LAMBDA fresh :
              Bind(IF base # 1 THEN CopyProcs(l, fresh, l.syscmds + 1)
                   ELSE fresh, LAMBDA sublil :
              Bind(lil_parse_value(sublil, argv[base + 1], 1), LAMBDA p :
              Bind([l EXCEPT !.hostenv = p.l.hostenv, !.trace = p.l.trace,
                             !.polls = p.l.polls, !.npid = p.l.npid],
                   LAMBDA l1 :
              [l |-> Log(l1, [ev |-> "jailed", vars0 |-> VarsOf(l.envs),
                              vars |-> VarsOf(l1.envs),
                              cmds0 |-> [k \in 1..Len(l.cmd)
                                           |-> l.funcs[l.cmd[k]]],
                              cmds |-> [k \in 1..Len(l1.cmd)
                                          |-> l1.funcs[l1.cmd[k]]],
                              reads0 |-> ReadsOf(l),
                              reads |-> ReadsOf(l1)]),
               r |-> p.r]))))

\* The two steps of the evaluator that call each other: lil_parse running a
\* text, and cmd->proc(lil, argc, argv), the C function a registered name
\* points to
Eval(l, req) ==
    CASE req.op = "lil_parse" ->
             ParseLoop(ParseEnter(l, req.code, req.codelen, req.funclevel),
                       l.npid + 1, NULL, l, req.funclevel)
      [] req.op = "lil_call" -> lil_call(l, req.funcname, req.argv)
      [] req.op = "dispatch" -> Dispatch([l |-> l, r |-> req.words], 0)
      [] req.op = "run_cmd" -> run_cmd(l, req.cmd, req.words)
      [] req.op = "lil_eval_expr" -> lil_eval_expr(l, req.code)
      [] req.op = "fnc_eval" -> fnc_eval(l, req.argv)
      [] req.op = "fnc_expr" -> fnc_expr(l, req.argv)
      [] req.op = "fnc_for" -> fnc_for(l, req.argv)
      [] req.op = "fnc_if" -> fnc_if(l, req.argv)
      [] req.op = "fnc_while" -> fnc_while(l, req.argv)
      [] req.op = "fnc_foreach" -> fnc_foreach(l, req.argv)
      [] req.op = "fnc_func" -> fnc_func(l, req.argv)
      [] req.op = "fnc_local" -> fnc_local(l, req.argv)
      [] req.op = "fnc_lmap" -> fnc_lmap(l, req.argv)
      [] req.op = "fnc_rename" -> fnc_rename(l, req.argv)
      [] req.op = "fnc_return" -> fnc_return(l, req.argv)
      [] req.op = "fnc_set" -> fnc_set(l, req.argv)
      [] req.op = "fnc_try" -> fnc_try(l, req.argv)
      [] req.op = "fnc_catcher" -> fnc_catcher(l, req.argv)
      [] req.op = "fnc_downeval" -> fnc_downeval(l, req.argv)
      [] req.op = "fnc_enveval" -> fnc_enveval(l, req.argv)
      [] req.op = "fnc_error" -> fnc_error(l, req.argv)
      [] req.op = "fnc_jaileval" -> fnc_jaileval(l, req.argv)
      [] req.op = "fnc_quote" -> fnc_quote(l, req.argv)
      [] req.op = "fnc_reflect" -> fnc_reflect(l, req.argv)
      [] req.op = "fnc_result" -> fnc_result(l, req.argv)
      [] req.op = "fnc_topeval" -> fnc_topeval(l, req.argv)
      [] req.op = "fnc_upeval" -> fnc_upeval(l, req.argv)
      [] req.op = "fnc_watch" -> fnc_watch(l, req.argv)

\* cmd->proc(lil, argc, argv)
CallProc(l, proc, argv) ==
    Eval(l, [op |-> proc, argv |-> argv])

\* The loop of lil_call that binds the parameters of a script Function; a
\* parameter without an argument gets a null Value
RECURSIVE CallArgs(_, _, _, _)
CallArgs(l, argnames, argv, i) ==
    IF i > Len(argnames) THEN l
    ELSE CallArgs(lil_set_var(l, lil_to_string(argnames[i]),
                              IF i <= Len(argv) THEN argv[i] ELSE NULL,
                              LIL_SETVAR_LOCAL_NEW).l,
                  argnames, argv, i + 1)

lil_call(l, funcname, argv) ==
    LET cmd == lil_find_cmd(l, funcname) IN
    IF cmd = 0 THEN [l |-> l, r |-> NULL]
    ELSE LET f == l.funcs[cmd] IN
         IF f.proc # "" THEN CallProc(l, f.proc, argv)
         ELSE LET l1 == lil_push_env(l)
                  l2 == [l1 EXCEPT !.envs[l1.env].func = cmd]
                  l3 == IF Len(f.argnames) = 1
                           /\ lil_to_string(f.argnames[1]) = S_args
                        THEN lil_set_var(l2, S_args,
                                         lil_list_to_value(argv, 0),
                                         LIL_SETVAR_LOCAL_NEW).l
                        ELSE CallArgs(l2, f.argnames, argv, 1)
              IN Bind(lil_parse_value(l3, f.code, 1), LAMBDA p :
                 [r |-> p.r, l |-> lil_pop_env(p.l)])

-----------------------------------------------------------------------------
(* The interpreter as the host sees it *)

\* The interpreter at the start of a host call: struct lil with the
\* environment store, an empty history and the polls of ctrlc() to come
Run(polls) ==
    [code |-> lil.code, rootcode |-> lil.rootcode, clen |-> lil.clen,
     head |-> lil.head, ignoreeol |-> lil.ignoreeol, cmd |-> lil.cmd,
     syscmds |-> lil.syscmds, cmdmap |-> lil.cmdmap,
     catcher |-> lil.catcher, in_catcher |-> lil.in_catcher,
     dollarprefix |-> lil.dollarprefix, env |-> lil.env,
     rootenv |-> lil.rootenv, downenv |-> lil.downenv, empty |-> lil.empty,
     error |-> lil.error, err_head |-> lil.err_head,
     err_msg |-> lil.err_msg, parse_depth |-> lil.parse_depth,
     envs |-> lil.envs, funcs |-> lil.funcs,
     hostenv |-> hostenv, trace |-> <<>>, polls |-> polls, npid |-> 0,
     inst |-> 0, undef |-> 0]


\* The state after a host call that went through the interpreter l
Returns(l, call) ==
    /\ lil' = StructOf(l)
    /\ hostenv' = l.hostenv
    /\ trace' = l.trace
    /\ last' = call @@ [n |-> last.n + 1, err0 |-> lil.error,
                        env0 |-> lil.env]

\* The programs the host runs
\* The return of a call that gave the interpreter c.l and the result c.r
Returned(c, call) == Returns(c.l, call @@ [r |-> c.r])

Scripts ==
    <<[name |-> "return",
       \* func f {} {return 1; set z 9}; f
       code |-> <<"f", "u", "n", "c", " ", "f", " ", "{", "}", " ", "{", "r", "e", "t", "u", "r", "n", " ", "1", ";", " ", "s", "e", "t", " ", "z", " ", "9", "}", ";", " ", "f">>],
      [name |-> "return_nested",
       \* func f {} {eval {return 2}; set z 9}; f; set y 3
       code |-> <<"f", "u", "n", "c", " ", "f", " ", "{", "}", " ", "{", "e", "v", "a", "l", " ", "{", "r", "e", "t", "u", "r", "n", " ", "2", "}", ";", " ", "s", "e", "t", " ", "z", " ", "9", "}", ";", " ", "f", ";", " ", "s", "e", "t", " ", "y", " ", "3">>],
      [name |-> "result",
       \* func f {} {result 4; set z 9}; f
       code |-> <<"f", "u", "n", "c", " ", "f", " ", "{", "}", " ", "{", "r", "e", "s", "u", "l", "t", " ", "4", ";", " ", "s", "e", "t", " ", "z", " ", "9", "}", ";", " ", "f">>],
      [name |-> "error",
       \* error boom; set y 3
       code |-> <<"e", "r", "r", "o", "r", " ", "b", "o", "o", "m", ";", " ", "s", "e", "t", " ", "y", " ", "3">>],
      [name |-> "set",
       \* set x 1
       code |-> <<"s", "e", "t", " ", "x", " ", "1">>],
      [name |-> "try_ok",
       \* try {error foo} {quote ok}
       code |-> <<"t", "r", "y", " ", "{", "e", "r", "r", "o", "r", " ", "f", "o", "o", "}", " ", "{", "q", "u", "o", "t", "e", " ", "o", "k", "}">>],
      [name |-> "try_bad",
       \* try {error foo} {error bar}; set y 3
       code |-> <<"t", "r", "y", " ", "{", "e", "r", "r", "o", "r", " ", "f", "o", "o", "}", " ", "{", "e", "r", "r", "o", "r", " ", "b", "a", "r", "}", ";", " ", "s", "e", "t", " ", "y", " ", "3">>],
      [name |-> "try_one",
       \* try {nosuch}; set y 2
       code |-> <<"t", "r", "y", " ", "{", "n", "o", "s", "u", "c", "h", "}", ";", " ", "s", "e", "t", " ", "y", " ", "2">>],
      [name |-> "dollar",
       \* set x 1; quote $x [set x]
       code |-> <<"s", "e", "t", " ", "x", " ", "1", ";", " ", "q", "u", "o", "t", "e", " ", "$", "x", " ", "[", "s", "e", "t", " ", "x", "]">>],
      [name |-> "dollar_global",
       \* set global 1; quote $global
       code |-> <<"s", "e", "t", " ", "g", "l", "o", "b", "a", "l", " ", "1", ";", " ", "q", "u", "o", "t", "e", " ", "$", "g", "l", "o", "b", "a", "l">>],
      [name |-> "dollar_spaced",
       \* set {a b} 1; quote ${a b}
       code |-> <<"s", "e", "t", " ", "{", "a", " ", "b", "}", " ", "1", ";", " ", "q", "u", "o", "t", "e", " ", "$", "{", "a", " ", "b", "}">>],
      [name |-> "local",
       \* local x; set x 2
       code |-> <<"l", "o", "c", "a", "l", " ", "x", ";", " ", "s", "e", "t", " ", "x", " ", "2">>],
      [name |-> "watch",
       \* watch x {set y w}; set x 1; set x 2
       code |-> <<"w", "a", "t", "c", "h", " ", "x", " ", "{", "s", "e", "t", " ", "y", " ", "w", "}", ";", " ", "s", "e", "t", " ", "x", " ", "1", ";", " ", "s", "e", "t", " ", "x", " ", "2">>],
      [name |-> "scope",
       \* func g {} {set x}; func f {} {local x; set x 1; g}; f
       code |-> <<"f", "u", "n", "c", " ", "g", " ", "{", "}", " ", "{", "s", "e", "t", " ", "x", "}", ";", " ", "f", "u", "n", "c", " ", "f", " ", "{", "}", " ", "{", "l", "o", "c", "a", "l", " ", "x", ";", " ", "s", "e", "t", " ", "x", " ", "1", ";", " ", "g", "}", ";", " ", "f">>],
      [name |-> "foreach",
       \* foreach i {a b} {quote $i}
       code |-> <<"f", "o", "r", "e", "a", "c", "h", " ", "i", " ", "{", "a", " ", "b", "}", " ", "{", "q", "u", "o", "t", "e", " ", "$", "i", "}">>],
      [name |-> "unbalanced",
       \* set x {
       code |-> <<"s", "e", "t", " ", "x", " ", "{">>],
      [name |-> "upeval",
       \* func f {} {upeval {set u 1}; topeval {set t 2}}; f
       code |-> <<"f", "u", "n", "c", " ", "f", " ", "{", "}", " ", "{", "u", "p", "e", "v", "a", "l", " ", "{", "s", "e", "t", " ", "u", " ", "1", "}", ";", " ", "t", "o", "p", "e", "v", "a", "l", " ", "{", "s", "e", "t", " ", "t", " ", "2", "}", "}", ";", " ", "f">>],
      [name |-> "watch_x",
       \* watch x {set y w}
       code |-> <<"w", "a", "t", "c", "h", " ", "x", " ", "{", "s", "e", "t", " ", "y", " ", "w", "}">>],
      [name |-> "watch_y",
       \* watch y {set global z 3}
       code |-> <<"w", "a", "t", "c", "h", " ", "y", " ", "{", "s", "e", "t", " ", "g", "l", "o", "b", "a", "l", " ", "z", " ", "3", "}">>],
      [name |-> "watch_err",
       \* watch x {error w}; watch y {set z 1}; set x 1 y 2
       code |-> <<"w", "a", "t", "c", "h", " ", "x", " ", "{", "e", "r", "r", "o", "r", " ", "w", "}", ";", " ", "w", "a", "t", "c", "h", " ", "y", " ", "{", "s", "e", "t", " ", "z", " ", "1", "}", ";", " ", "s", "e", "t", " ", "x", " ", "1", " ", "y", " ", "2">>],
      [name |-> "dollar_local",
       \* func f {} {set x 5; quote $x [set x]}; f
       code |-> <<"f", "u", "n", "c", " ", "f", " ", "{", "}", " ", "{", "s", "e", "t", " ", "x", " ", "5", ";", " ", "q", "u", "o", "t", "e", " ", "$", "x", " ", "[", "s", "e", "t", " ", "x", "]", "}", ";", " ", "f">>],
      [name |-> "watch_result",
       \* func f {} {watch x quote; result 3; set x 1}; f
       code |-> <<"f", "u", "n", "c", " ", "f", " ", "{", "}", " ", "{", "w", "a", "t", "c", "h", " ", "x", " ", "q", "u", "o", "t", "e", ";", " ", "r", "e", "s", "u", "l", "t", " ", "3", ";", " ", "s", "e", "t", " ", "x", " ", "1", "}", ";", " ", "f">>],
      [name |-> "func_error",
       \* func f {} {error e; set z 1}; f
       code |-> <<"f", "u", "n", "c", " ", "f", " ", "{", "}", " ", "{", "e", "r", "r", "o", "r", " ", "e", ";", " ", "s", "e", "t", " ", "z", " ", "1", "}", ";", " ", "f">>],
      [name |-> "catcher",
       \* catcher {quote c $args}; nosuch a {b c}
       code |-> <<"c", "a", "t", "c", "h", "e", "r", " ", "{", "q", "u", "o", "t", "e", " ", "c", " ", "$", "a", "r", "g", "s", "}", ";", " ", "n", "o", "s", "u", "c", "h", " ", "a", " ", "{", "b", " ", "c", "}">>],
      [name |-> "args",
       \* func g args {quote $args}; g a {b c}
       code |-> <<"f", "u", "n", "c", " ", "g", " ", "a", "r", "g", "s", " ", "{", "q", "u", "o", "t", "e", " ", "$", "a", "r", "g", "s", "}", ";", " ", "g", " ", "a", " ", "{", "b", " ", "c", "}">>],
      [name |-> "dotted",
       \* func a {} {quote 1}; a.b 2; no.x
       code |-> <<"f", "u", "n", "c", " ", "a", " ", "{", "}", " ", "{", "q", "u", "o", "t", "e", " ", "1", "}", ";", " ", "a", ".", "b", " ", "2", ";", " ", "n", "o", ".", "x">>],
      [name |-> "func_dotted",
       \* func a.b {} {quote 1}; func a.b {} {quote 2}
       code |-> <<"f", "u", "n", "c", " ", "a", ".", "b", " ", "{", "}", " ", "{", "q", "u", "o", "t", "e", " ", "1", "}", ";", " ", "f", "u", "n", "c", " ", "a", ".", "b", " ", "{", "}", " ", "{", "q", "u", "o", "t", "e", " ", "2", "}">>],
      [name |-> "func_again",
       \* func f {} {quote 1}; func f {} {quote 2}; func quote {} {}
       code |-> <<"f", "u", "n", "c", " ", "f", " ", "{", "}", " ", "{", "q", "u", "o", "t", "e", " ", "1", "}", ";", " ", "f", "u", "n", "c", " ", "f", " ", "{", "}", " ", "{", "q", "u", "o", "t", "e", " ", "2", "}", ";", " ", "f", "u", "n", "c", " ", "q", "u", "o", "t", "e", " ", "{", "}", " ", "{", "}">>],
      [name |-> "unbalanced_all",
       \* try {set x [quote 1}; try {quote 'a}; quote "b
       code |-> <<"t", "r", "y", " ", "{", "s", "e", "t", " ", "x", " ", "[", "q", "u", "o", "t", "e", " ", "1", "}", ";", " ", "t", "r", "y", " ", "{", "q", "u", "o", "t", "e", " ", "'", "a", "}", ";", " ", "q", "u", "o", "t", "e", " ", "\"", "b">>],
      [name |-> "unbalanced_late",
       \* quote "[error x]
       code |-> <<"q", "u", "o", "t", "e", " ", "\"", "[", "e", "r", "r", "o", "r", " ", "x", "]">>],
      [name |-> "jaileval",
       \* jaileval {set global foo bar}; quote $foo
       code |-> <<"j", "a", "i", "l", "e", "v", "a", "l", " ", "{", "s", "e", "t", " ", "g", "l", "o", "b", "a", "l", " ", "f", "o", "o", " ", "b", "a", "r", "}", ";", " ", "q", "u", "o", "t", "e", " ", "$", "f", "o", "o">>],
      [name |-> "enveval",
       \* func t {} {enveval y {set y 2}}; t
       code |-> <<"f", "u", "n", "c", " ", "t", " ", "{", "}", " ", "{", "e", "n", "v", "e", "v", "a", "l", " ", "y", " ", "{", "s", "e", "t", " ", "y", " ", "2", "}", "}", ";", " ", "t">>],
      [name |-> "enveval_out",
       \* set y 10 z 88; enveval {y z} {y} {set y 44 z 123}; quote $y $z
       code |-> <<"s", "e", "t", " ", "y", " ", "1", "0", " ", "z", " ", "8", "8", ";", " ", "e", "n", "v", "e", "v", "a", "l", " ", "{", "y", " ", "z", "}", " ", "{", "y", "}", " ", "{", "s", "e", "t", " ", "y", " ", "4", "4", " ", "z", " ", "1", "2", "3", "}", ";", " ", "q", "u", "o", "t", "e", " ", "$", "y", " ", "$", "z">>],
      [name |-> "downeval",
       \* func f {} {topeval {downeval {error e}}}; f
       code |-> <<"f", "u", "n", "c", " ", "f", " ", "{", "}", " ", "{", "t", "o", "p", "e", "v", "a", "l", " ", "{", "d", "o", "w", "n", "e", "v", "a", "l", " ", "{", "e", "r", "r", "o", "r", " ", "e", "}", "}", "}", ";", " ", "f">>],
      [name |-> "bracket_eol",
       \* foreach i {[quote a;quote b];c} {quote $i}
       code |-> <<"f", "o", "r", "e", "a", "c", "h", " ", "i", " ", "{", "[", "q", "u", "o", "t", "e", " ", "a", ";", "q", "u", "o", "t", "e", " ", "b", "]", ";", "c", "}", " ", "{", "q", "u", "o", "t", "e", " ", "$", "i", "}">>],
      [name |-> "return_enveval",
       \* func f {} {enveval {return 1}; set z 9}; f
       code |-> <<"f", "u", "n", "c", " ", "f", " ", "{", "}", " ", "{", "e", "n", "v", "e", "v", "a", "l", " ", "{", "r", "e", "t", "u", "r", "n", " ", "1", "}", ";", " ", "s", "e", "t", " ", "z", " ", "9", "}", ";", " ", "f">>],
      [name |-> "return_for",
       \* func f {} {for {} 1 {set z 9} {return 1}}; f
       code |-> <<"f", "u", "n", "c", " ", "f", " ", "{", "}", " ", "{", "f", "o", "r", " ", "{", "}", " ", "1", " ", "{", "s", "e", "t", " ", "z", " ", "9", "}", " ", "{", "r", "e", "t", "u", "r", "n", " ", "1", "}", "}", ";", " ", "f">>],
      [name |-> "return_while",
       \* func f {} {while 1 {return 1}; set z 9}; f
       code |-> <<"f", "u", "n", "c", " ", "f", " ", "{", "}", " ", "{", "w", "h", "i", "l", "e", " ", "1", " ", "{", "r", "e", "t", "u", "r", "n", " ", "1", "}", ";", " ", "s", "e", "t", " ", "z", " ", "9", "}", ";", " ", "f">>],
      [name |-> "expr_error",
       \* quote a; expr 1 / 0; quote b
       code |-> <<"q", "u", "o", "t", "e", " ", "a", ";", " ", "e", "x", "p", "r", " ", "1", " ", "/", " ", "0", ";", " ", "q", "u", "o", "t", "e", " ", "b">>],
      [name |-> "downeval_up",
       \* func f {} {upeval {downeval {error e}}}; f
       code |-> <<"f", "u", "n", "c", " ", "f", " ", "{", "}", " ", "{", "u", "p", "e", "v", "a", "l", " ", "{", "d", "o", "w", "n", "e", "v", "a", "l", " ", "{", "e", "r", "r", "o", "r", " ", "e", "}", "}", "}", ";", " ", "f">>]>>

Init ==
    /\ lil = lil_new
    /\ hostenv = {}
    /\ trace = <<>>
    /\ last = [op |-> "lil_new", n |-> 0]

\* The host runs a program: lil_parse(lil, code, 0, funclevel)
HostParse(i, funclevel, polls) ==
    /\ last.n < MaxCalls
    /\ LET p == lil_parse(Run(polls), Scripts[i].code, 0, funclevel) IN
       Returns(p.l, [op |-> "lil_parse", script |-> Scripts[i].name,
                     funclevel |-> funclevel, polls |-> polls, r |-> p.r])

\* The host reads the error slot: lil_error(lil, &msg, &pos)
HostError ==
    /\ last.n < MaxCalls
    /\ lil' = [lil EXCEPT !.error = ERROR_NOERROR]
    /\ trace' = <<>>
    /\ last' = [op |-> "lil_error", n |-> last.n + 1, err0 |-> lil.error,
                env0 |-> lil.env,
                r |-> IF lil.error # ERROR_NOERROR THEN 1 ELSE 0,
                msg |-> IF lil.error # ERROR_NOERROR THEN lil.err_msg
                        ELSE NULL,
                pos |-> IF lil.error # ERROR_NOERROR THEN lil.err_head
                        ELSE 0]
    /\ UNCHANGED hostenv

\* The host assigns a Variable: lil_set_var(lil, name, val, local)
HostSetVar(name, val, local) ==
    /\ last.n < MaxApiCalls
    /\ Len(lil.envs[lil.env].var) < MaxVars
    /\ Len(lil.envs[lil.rootenv].var) < MaxVars
    /\ LET sv == lil_set_var(Run(0), name, val, local) IN
       Returns(sv.l, [op |-> "lil_set_var", name |-> name, val |-> val,
                      local |-> local, r |-> sv.r,
                      vars0 |-> VarsOf(lil.envs)])

\* The host reads a Variable: lil_get_var(lil, name)
HostGetVar(name) ==
    /\ last.n < MaxApiCalls
    /\ LET g == lil_get_var(Run(0), name) IN
       Returns(g.l, [op |-> "lil_get_var", name |-> name, r |-> g.r])

\* lil_push_env(lil) and lil_pop_env(lil)
HostPushEnv ==
    /\ last.n < MaxApiCalls
    /\ Len(lil.envs) < MaxEnvs
    /\ Returns(lil_push_env(Run(0)), [op |-> "lil_push_env"])

HostPopEnv ==
    /\ last.n < MaxApiCalls
    /\ Returns(lil_pop_env(Run(0)), [op |-> "lil_pop_env"])

\* The host runs a program in whatever Environment is current
HostParseIn(i) ==
    /\ last.n < MaxApiCalls
    /\ LET p == lil_parse(Run(0), Scripts[i].code, 0, 0) IN
       Returns(p.l, [op |-> "lil_parse", script |-> Scripts[i].name,
                     funclevel |-> 0, polls |-> 0, r |-> p.r])

\* The host calls a command: lil_call(lil, funcname, argc, argv)
HostCall(funcname, argv) ==
    /\ last.n < MaxCalls
    /\ Returned(Eval(Run(0), [op |-> "lil_call", funcname |-> funcname,
                               argv |-> argv]),
                [op |-> "lil_call", funcname |-> funcname, argv |-> argv])

\* The commands the host calls and the arguments it gives
CallNames == {<<"f">>, <<"g">>, <<"s", "e", "t">>}
CallArgvs == {<<>>, <<<<"a">>, <<"b", " ", "c">>>>}

\* The host registers a command: lil_register(lil, name, proc)
HostRegister(name, proc) ==
    /\ last.n < MaxCalls
    /\ LET l == lil_register(Run(0), name, proc) IN
       Returns(l, [op |-> "lil_register", name |-> name, proc |-> proc,
                   r |-> 1])

\* The interrupt key is pressed during the host's first call only
PollsAt(n) == IF n = 0 THEN Polls ELSE {0}

\* The names the host registers
RegNames == {<<"f">>, <<"a", ".", "b">>}

Next ==
    \/ \E i \in 1..Len(Scripts), funclevel \in {0, 1},
          polls \in PollsAt(last.n) : HostParse(i, funclevel, polls)
    \/ HostError
    \/ \E funcname \in CallNames, argv \in CallArgvs :
          HostCall(funcname, argv)
    \/ \E name \in RegNames : HostRegister(name, "fnc_quote")

Spec == Init /\ [][Next]_vars


\* The host working on Variables and Environments through the C interface
EnvScripts == {"watch_x", "watch_y", "scope", "downeval"}

NextEnv ==
    \/ \E val \in {<<"1">>, <<"2">>},
          local \in {LIL_SETVAR_GLOBAL, LIL_SETVAR_LOCAL,
                     LIL_SETVAR_LOCAL_NEW, LIL_SETVAR_LOCAL_ONLY} :
          HostSetVar(<<"x">>, val, local)
    \/ HostGetVar(<<"x">>)
    \/ HostPushEnv
    \/ HostPopEnv
    \/ \E i \in 1..Len(Scripts) :
          Scripts[i].name \in EnvScripts /\ HostParseIn(i)

SpecEnv == Init /\ [][NextEnv]_vars


\* The interpreter inside a recursion of the catcher.  Under the catcher
\* "eval $args" an unknown command runs the catcher, whose eval meets the
\* same words again: at depth d there are d frames above the root, each
\* with the words in args, and two parse calls per depth above the host's.
\* The eval has read its line and is about to dispatch the words.
CatcherCode == <<"e", "v", "a", "l", " ", "$", "a", "r", "g", "s">>
CatcherDepths == {MAX_CATCHER_DEPTH - 2, MAX_CATCHER_DEPTH - 1,
                  MAX_CATCHER_DEPTH}
UnknownNames == {<<"a">>, <<"b">>, <<"n", "o">>, <<"x", "y">>, <<"f", "2">>}
UnknownArgs == {<<>>, <<<<"1">>>>, <<<<"1">>, <<"2">>>>, <<<<"b", " ", "c">>>>}

InCatcher(d, words) ==
    LET line == lil_list_to_value(words, 1)
        frame(e) ==
            IF e = 1 THEN lil_alloc_env(0)
            ELSE [lil_alloc_env(e - 1) EXCEPT
                    !.catcher_for = words[1],
                    !.var = <<[n |-> S_args, w |-> NULL, env |-> e,
                               v |-> line]>>,
                    !.varmap = hm_put(<<>>, S_args, 1)]
    IN [lil_new EXCEPT !.catcher = CatcherCode, !.in_catcher = d,
                       !.envs = [e \in 1..(d + 1) |-> frame(e)],
                       !.env = d + 1, !.parse_depth = 1 + 2 * d,
                       !.rootcode = line, !.code = line,
                       !.clen = strlen(line), !.head = strlen(line)]

InitCatcher ==
    \E d \in CatcherDepths, name \in UnknownNames, args \in UnknownArgs :
       /\ lil = InCatcher(d, <<name>> \o args)
       /\ hostenv = {}
       /\ trace = <<>>
       /\ last = [op |-> "eval", n |-> 0, words |-> <<name>> \o args]

\* One round of lil_parse's loop from the words it has read
DispatchWords ==
    /\ last.n = 0
    /\ Returned(Eval(Run(0), [op |-> "dispatch", words |-> last.words]),
                [op |-> "dispatch", words |-> last.words])

NextCatcher == DispatchWords

SpecCatcher == InitCatcher /\ [][NextCatcher]_vars

\* The host builds a List with lil_alloc_list and lil_list_append, turns it
\* into a Value with lil_list_to_value and reads the Value back with
\* lil_subst_to_list
ItemChars == {"a", " ", "{", "}"}

ItemsOfLen(n) == [1..n -> ItemChars]

ListItems ==
    UNION {ItemsOfLen(n) : n \in 0..MaxItemLen}
    \cup {<<"$">>, <<"[">>, <<"]">>, <<"\"">>, <<"'">>, <<";">>, <<"#">>,
          <<"\\">>, <<"$", "a">>, <<"[", "a", "]">>, <<"\\", "o">>,
          <<"#", "a">>, <<"a", ";">>, <<"'", "a">>}

InitList ==
    /\ lil = lil_new
    /\ hostenv = {}
    /\ trace = <<>>
    /\ last = [op |-> "lil_alloc_list", n |-> 0, list |-> <<>>]

HostListAppend(val) ==
    /\ last.op \in {"lil_alloc_list", "lil_list_append"}
    /\ Len(last.list) < MaxListLen
    /\ last' = [op |-> "lil_list_append", n |-> 0,
                list |-> Append(last.list, val)]
    /\ UNCHANGED <<lil, hostenv, trace>>

HostListRoundTrip ==
    /\ last.op \in {"lil_alloc_list", "lil_list_append"}
    /\ Returned(lil_subst_to_list(Run(0), lil_list_to_value(last.list, 1)),
                [op |-> "lil_subst_to_list", list |-> last.list,
                 code |-> lil_list_to_value(last.list, 1)])

NextList ==
    \/ \E val \in ListItems : HostListAppend(val)
    \/ HostListRoundTrip

SpecList == InitList /\ [][NextList]_vars

\* The host evaluates expressions with lil_eval_expr
BinOps == {"||", "&&", "|", "&", "==", "!=", "<", ">", "<=", ">=", "<<", ">>", "+", "-", "*", "/", "\\", "%"}

UnOps == {"-", "+", "~", "!"}

\* The text of an operator
OpText(op) ==
    CASE op = "||" -> <<"|", "|">>
      [] op = "&&" -> <<"&", "&">>
      [] op = "|" -> <<"|">>
      [] op = "&" -> <<"&">>
      [] op = "==" -> <<"=", "=">>
      [] op = "!=" -> <<"!", "=">>
      [] op = "<" -> <<"<">>
      [] op = ">" -> <<">">>
      [] op = "<=" -> <<"<", "=">>
      [] op = ">=" -> <<">", "=">>
      [] op = "<<" -> <<"<", "<">>
      [] op = ">>" -> <<">", ">">>
      [] op = "+" -> <<"+">>
      [] op = "-" -> <<"-">>
      [] op = "*" -> <<"*">>
      [] op = "/" -> <<"/">>
      [] op = "\\" -> <<"\\">>
      [] op = "%" -> <<"%">>
      [] op = "~" -> <<"~">>
      [] op = "!" -> <<"!">>

\* The words of an expression as the text of it, with or without spaces
\* between them
RECURSIVE ExprText(_, _)
ExprText(words, spaced) ==
    IF Len(words) = 0 THEN <<>>
    ELSE IF Len(words) = 1 THEN words[1]
    ELSE words[1] \o (IF spaced THEN <<" ">> ELSE <<>>)
         \o ExprText(Tail(words), spaced)

\* The numbers in the expressions the host evaluates
Operands == {0, 1, 2}

\* What the build makes of an undefined shift
Undefs == {0, -1}

\* The expressions of lil_tests["expr"] and the values it asserts, and the
\* two further ones of the precedence rule
ExprTests ==
    <<      [code |-> <<"1", " ", "+", " ", "(", " ", "2", " ", "*", " ", "3", " ", ")">>,
       val |-> <<"7">>],
      [code |-> <<"1", "+", "(", "2", "*", "3", ")">>,
       val |-> <<"7">>],
      [code |-> <<"1", "+", " ", "~", "(", "2", "*", "3", ")">>,
       val |-> <<"-", "6">>],
      [code |-> <<"1", " ", "+", " ", "~", "(", " ", "2", " ", "*", " ", "3", " ", ")">>,
       val |-> <<"-", "6">>],
      [code |-> <<"1", " ", "+", "~", " ", "(", "2", "*", "3", " ", ")">>,
       val |-> <<"-", "6">>],
      [code |-> <<"~", "(", "2", "*", "3", ")", "+", "1">>,
       val |-> <<"-", "6">>],
      [code |-> <<"1", "*", "!", "(", "2", "+", "2", ")">>,
       val |-> <<"0">>],
      [code |-> <<"~", "!", "(", "!", "{", "}", ")">>,
       val |-> <<"-", "1">>],
      [code |-> <<"1", " ", "+", "~", "*", "(", "2", "*", "3", ")">>,
       val |-> <<"1">>],
      [code |-> <<"'", "h", "e", "l", "l", "o", "'">>,
       val |-> <<"1">>],
      [code |-> <<"0">>,
       val |-> <<"0">>],
      [code |-> <<"{", "}">>,
       val |-> <<"0">>],
      [code |-> <<"(", ")">>,
       val |-> <<"1">>],
      [code |-> <<"(", " ", ")">>,
       val |-> <<"1">>],
      [code |-> <<"1", " ", "+", " ", "2", " ", "*", " ", "3">>,
       val |-> <<"7">>],
      [code |-> <<"1", " ", "|", "|", " ", "0", " ", "&", "&", " ", "0">>,
       val |-> <<"1">>]>>

\* What is not a number
NonNumeric == <<"a">>

\* The operands as text, and the number that a text of them is
OperandTexts == {lil_alloc_integer(x) : x \in Operands} \cup {NonNumeric}

NumberOf(text) == CHOOSE x \in Operands : lil_alloc_integer(x) = text

\* The host has an expression of one of these forms to evaluate
ExprForms ==
    [form : {"binary"}, op1 : BinOps, op2 : BinOps]
    \cup [form : {"pair"}, op1 : BinOps]
    \cup [form : {"unary"}, un : UnOps, op1 : BinOps]
    \cup [form : {"not"}, un : UnOps]
    \cup [form : {"test"}, i : 1..Len(ExprTests)]

InitExpr ==
    /\ lil = lil_new
    /\ hostenv = {}
    /\ trace = <<>>
    /\ \E f \in ExprForms : last = [op |-> "lil_new", n |-> 0] @@ f

\* The form of the expression the host has
FormGiven == [k \in DOMAIN last \ {"op", "n"} |-> last[k]]

HostEvalExpr(code, undef, input) ==
    /\ last.n = 0
    /\ Returned(Eval([Run(0) EXCEPT !.undef = undef],
                     [op |-> "lil_eval_expr", code |-> code]),
                [op |-> "lil_eval_expr", code |-> code, undef |-> undef]
                @@ input @@ FormGiven)

\* x op1 y op2 z
HostEvalBinary(x, y, z, spaced, undef) ==
    /\ last.form = "binary"
    /\ HostEvalExpr(ExprText(<<lil_alloc_integer(x), OpText(last.op1),
                               lil_alloc_integer(y), OpText(last.op2),
                               lil_alloc_integer(z)>>, spaced), undef,
                    [x |-> x, y |-> y, z |-> z])

\* x op y, where x or y may be no number
HostEvalPair(x, y, undef) ==
    /\ last.form = "pair"
    /\ HostEvalExpr(ExprText(<<x, OpText(last.op1), y>>, TRUE), undef,
                    [x |-> x, y |-> y])

\* un x op y, where x or y may be no number
HostEvalUnary(x, y, undef) ==
    /\ last.form = "unary"
    /\ HostEvalExpr(ExprText(<<OpText(last.un) \o x, OpText(last.op1), y>>,
                             TRUE), undef, [x |-> x, y |-> y])

\* un x
HostEvalNot(x, undef) ==
    /\ last.form = "not"
    /\ HostEvalExpr(OpText(last.un) \o x, undef, [x |-> x])

HostEvalTest ==
    /\ last.form = "test"
    /\ HostEvalExpr(ExprTests[last.i].code, 0, <<>>)

NextExpr ==
    \/ \E x, y, z \in Operands, spaced \in BOOLEAN, undef \in Undefs :
          HostEvalBinary(x, y, z, spaced, undef)
    \/ \E x, y \in OperandTexts, undef \in Undefs : HostEvalPair(x, y, undef)
    \/ \E x, y \in OperandTexts, undef \in Undefs : HostEvalUnary(x, y, undef)
    \/ \E x \in OperandTexts, undef \in Undefs : HostEvalNot(x, undef)
    \/ HostEvalTest

SpecExpr == InitExpr /\ [][NextExpr]_vars


\* The host makes an interpreter, runs one program that calls reflect, reads
\* the result, frees it and destroys the interpreter
ReflectTypes ==
    {<<>>, S_version, S_args, S_body, S_func_count, S_funcs, S_vars,
     S_globals, S_has_func, S_has_var, S_has_global, S_error,
     S_dollar_prefix, S_this, S_name, <<"x">>}

ReflectArgs == {<<>>, <<"f">>, <<"a">>, <<"g">>}

ReflectPlaces == {"root", "func", "frame", "catcher"}

\* What the host can find where it reads the result: the text that was
\* there, or what took its place when the memory had been freed
Reads == {"kept", "empty", "other"}

\* The words of the call of reflect
ReflectWords(type, arg) ==
    S_reflect \o (IF Len(type) > 0 THEN <<" ">> \o type ELSE <<>>)
              \o (IF Len(arg) > 0 THEN <<" ">> \o arg ELSE <<>>)

\* The program that calls reflect at the root, in the body of a Function,
\* in a frame of enveval inside it, or in the catcher
ReflectText(place, words) ==
    IF place = "root" THEN <<"s", "e", "t", " ", "g", " ", "1", ";", " ">> \o words
    ELSE IF place = "func"
    THEN <<"f", "u", "n", "c", " ", "f", " ", "{", "a", "}", " ", "{">> \o words \o <<"}", ";", " ", "f", " ", "1">>
    ELSE IF place = "frame"
    THEN <<"f", "u", "n", "c", " ", "f", " ", "{", "a", "}", " ", "{", "e", "n", "v", "e", "v", "a", "l", " ", "{">> \o words \o <<"}", "}", ";", " ", "f", " ", "1">>
    ELSE <<"c", "a", "t", "c", "h", "e", "r", " ", "{">> \o words \o <<"}", ";", " ", "g", " ", "1">>

\* The Value the program returned is one that reflect took from the words
\* of the command the catcher was run for: lil_parse has freed those words
\* at its cleanup label
FreedResult(p) ==
    \E i \in 1..Len(p.l.trace) :
        /\ p.l.trace[i].ev = "reflect" /\ p.l.trace[i].owner = "List"
        /\ p.l.trace[i].val = p.r

ReflectReturns(p, place, type, arg, read) ==
    /\ read = "kept" \/ FreedResult(p)
    /\ Returns(p.l, [op |-> "lil_parse", place |-> place, type |-> type,
                     arg |-> arg, read |-> read, freed |-> FreedResult(p),
                     r |-> IF read = "kept" THEN p.r
                           ELSE IF read = "empty" THEN <<>>
                           ELSE <<"?">>])

HostReflect(place, type, arg, read) ==
    /\ last.op = "lil_new"
    /\ ReflectReturns(lil_parse(Run(0),
                                ReflectText(place, ReflectWords(type, arg)),
                                0, 0),
                      place, type, arg, read)

NextReflect ==
    \E place \in ReflectPlaces, type \in ReflectTypes, arg \in ReflectArgs,
       read \in Reads : HostReflect(place, type, arg, read)

SpecReflect == Init /\ [][NextReflect]_vars



-----------------------------------------------------------------------------
(* Reading the history of a host call *)

Events == 1..Len(trace)

\* The k-th smallest member of a set of events
Nth(S, k) == CHOOSE j \in S : Cardinality({x \in S : x <= j}) = k

IsCmd(i, proc) == trace[i].ev = "cmd" /\ trace[i].proc = proc

\* The event that ends what event i begins: the return of the parse call
\* entered at i, or the return of the command dispatched at i
EndOf(i) ==
    LET end == IF trace[i].ev = "parse" THEN "parsed" ELSE "done"
        ends == {j \in Events : j > i /\ trace[j].ev = end
                                /\ trace[j].pid = trace[i].pid}
    IN CHOOSE j \in ends : \A k \in ends : j <= k

\* Event k enters the body of a script Function: run_cmd has pushed the
\* frame, bound the parameters and calls lil_parse_value(cmd->code, 1)
IsBody(k) ==
    /\ trace[k].ev = "parse" /\ trace[k].funclevel = 1 /\ trace[k].func # 0
    /\ k > 1
    /\ \/ trace[k - 1].ev = "cmd"
       \/ trace[k - 1].ev = "setvar" /\ trace[k - 1].created

\* The argument of the command dispatched at event i, the empty Value for none
ArgOf(i, n) ==
    IF Len(trace[i].words) > n THEN trace[i].words[n + 1] ELSE <<>>

-----------------------------------------------------------------------------
(* C1 *)

\* C1: when `return V` is dispatched as a command of the body of a script
\* Function, no later command of that body is dispatched, the parse of the
\* body returns V and so does the call of the Function.
C1_ReturnUnwinds ==
    \A k \in Events : IsBody(k) =>
        \A i \in Events :
            (i > k /\ IsCmd(i, "fnc_return")
                   /\ trace[i].pid = trace[k].pid) =>
                /\ \A j \in Events :
                       j > i => ~(trace[j].ev = "cmd"
                                  /\ trace[j].pid = trace[k].pid)
                /\ trace[EndOf(k)].val = ArgOf(i, 1)
                /\ trace[EndOf(k) + 1].ev = "done"
                /\ trace[EndOf(k) + 1].func = trace[k].func
                /\ trace[EndOf(k) + 1].val = ArgOf(i, 1)

\* `func f {} {return 1; set z 9}; f` has run: f gave 1 and z was never
\* assigned
C1_Witness ==
    /\ last.op = "lil_parse" /\ last.script = "return" /\ last.polls = 0
    /\ last.r = <<"1">>
    /\ \E k, i \in Events :
           /\ IsBody(k) /\ i > k /\ IsCmd(i, "fnc_return")
           /\ trace[i].pid = trace[k].pid
           /\ trace[k].code # trace[i].words[1] \o <<" ">> \o ArgOf(i, 1)
    /\ ~\E j \in Events : trace[j].ev = "setvar" /\ trace[j].name = <<"z">>

-----------------------------------------------------------------------------
(* C2 *)

\* The events of the host's interpreter (an interpreter that jaileval makes
\* has an error slot of its own)
OwnEvents == {j \in Events : trace[j].inst = 0}

\* The k-th of them
OwnEvent(k) == IF k \in 1..Cardinality(OwnEvents) THEN Nth(OwnEvents, k) ELSE 0

\* The error slot before the call, after each event of the call, and now
ErrorHistory ==
    <<IF last.op = "lil_new" THEN ERROR_NOERROR ELSE last.err0>>
    \o [k \in 1..Cardinality(OwnEvents) |-> trace[OwnEvent(k)].err]
    \o <<lil.error>>

\* Event j enters a parse call the host started (parse depth 1)
IsTopParse(j) ==
    j \in Events /\ trace[j].ev = "parse" /\ trace[j].depth = 1

\* Event j is `try` clearing the error slot after its first argument failed
IsCaught(j) == j \in Events /\ trace[j].ev = "caught"

\* C2 (amended): once the error slot is set it stays set and no command is
\* dispatched by the parse call in progress nor by one nested in it, until
\* lil_error reads and clears it, `try` clears it, or the host starts a new
\* parse call at parse depth 1, which clears it on entry.
C2_ErrorSticksUntilCleared ==
    /\ \A j \in Events : trace[j].ev = "cmd" => trace[j].err = ERROR_NOERROR
    /\ \A k \in 1..(Len(ErrorHistory) - 1) :
           (ErrorHistory[k] # ERROR_NOERROR
            /\ ErrorHistory[k + 1] = ERROR_NOERROR) =>
               \/ IsCaught(OwnEvent(k))
               \/ IsTopParse(OwnEvent(k))
               \/ k = Cardinality(OwnEvents) + 1 /\ last.op = "lil_error"

\* C2 as stated: only lil_error and `try` clear the slot, so a parse call
\* the host makes while the slot is set dispatches nothing
C2_AsStated ==
    /\ \A j \in Events : trace[j].ev = "cmd" => trace[j].err = ERROR_NOERROR
    /\ \A k \in 1..(Len(ErrorHistory) - 1) :
           (ErrorHistory[k] # ERROR_NOERROR
            /\ ErrorHistory[k + 1] = ERROR_NOERROR) =>
               \/ IsCaught(OwnEvent(k))
               \/ k = Cardinality(OwnEvents) + 1 /\ last.op = "lil_error"

\* The second Variable of `set x 1 y 2` was assigned while the error of the
\* first one's watch was pending: its own watch was entered and dispatched
\* nothing, and the error is still there after the call
C2_Witness ==
    /\ last.op = "lil_parse" /\ last.script = "watch_err"
    /\ lil.error # ERROR_NOERROR
    /\ \E k \in Events :
           /\ trace[k].ev = "parse" /\ trace[k].depth = 2
           /\ trace[k].err # ERROR_NOERROR
           /\ trace[k].code = <<"s", "e", "t", " ", "z", " ", "1">>
           /\ trace[k + 1].ev = "parsed"

-----------------------------------------------------------------------------
(* C3 *)

\* The events of `try` dispatched at event i with first argument A failing
\* and a second argument B: A's parse returns at a, with the slot set
TryFails(i, a) ==
    /\ IsCmd(i, "fnc_try") /\ Len(trace[i].words) >= 3
    /\ a > i /\ a < EndOf(i)
    /\ trace[i + 1].ev = "parse" /\ a = EndOf(i + 1)
    /\ trace[a].err # ERROR_NOERROR

\* C3: `try A B`: when the evaluation of A leaves the error slot set, try
\* clears the slot, evaluates B in the same Environment and returns B's
\* result; the slot is set when try returns exactly when B's evaluation
\* left it set.
C3_TryCatches ==
    \A i, a \in Events : TryFails(i, a) =>
        LET B == trace[i].words[3]
            d == EndOf(i)
        IN /\ trace[a + 1].ev = "caught"
           /\ trace[a + 1].err = ERROR_NOERROR
           /\ IF Len(B) = 0
              THEN /\ d = a + 2
                   /\ trace[d].val = <<>>
                   /\ trace[d].err = ERROR_NOERROR
              ELSE /\ trace[a + 2].ev = "parse"
                   /\ trace[a + 2].code = B
                   /\ trace[a + 2].cur = trace[i].cur
                   /\ d = EndOf(a + 2) + 1
                   /\ trace[d].val = trace[d - 1].val
                   /\ (trace[d].err # ERROR_NOERROR)
                          <=> (trace[d - 1].err # ERROR_NOERROR)

\* `try {error foo} {quote ok}` has run: it gave ok and no error is pending
C3_Witness ==
    /\ last.op = "lil_parse" /\ last.script = "try_ok" /\ last.polls = 0
    /\ last.r = <<"o", "k">>
    /\ lil.error = ERROR_NOERROR
    /\ \E i, a \in Events : TryFails(i, a)










-----------------------------------------------------------------------------
(* C8 *)

\* C8: every assignment whose target Variable is in the root Environment,
\* be it an existing Variable or one created there, comes with a call of
\* env_set for the same name and value.
C8_RootAssignmentsMirrored ==
    \A k \in Events :
        (trace[k].ev = "setvar" /\ trace[k].tgt.env = lil.rootenv) =>
            /\ k > 1
            /\ trace[k - 1].ev = "env_set"
            /\ trace[k - 1].name = trace[k].name
            /\ trace[k - 1].val = lil_to_string(trace[k].val)

-----------------------------------------------------------------------------
(* C9 *)

\* Event i is the return of the built-in `set N V`
IsSetDone(i) ==
    /\ trace[i].ev = "done" /\ trace[i].proc = "fnc_set"
    /\ Len(trace[i].words) = 3

\* Event j gives the Value of `$N` or of `[set N]`, read by the built-in set
ReadsVar(j, N) ==
    /\ \/ trace[j].ev = "dollar" /\ trace[j].name = N
       \/ trace[j].ev = "bracket" /\ trace[j].code = S_set_ \o N
    /\ j > 2 /\ trace[j - 2].ev = "done" /\ trace[j - 2].proc = "fnc_set"

\* Event j comes after event i in the same scope, no assignment between
ReadsAfter(i, j) ==
    /\ i < j /\ trace[j].cur = trace[i].cur
    /\ \A k \in (i + 1)..(j - 1) :
           /\ trace[k].ev # "setvar"
           /\ ~(trace[k].ev = "parsed" /\ trace[k].pid = trace[i].pid)

\* A name that one bare word spells
BareName(N) ==
    /\ Len(N) > 0 /\ N[1] # "#"
    /\ \A c \in 1..Len(N) :
           ~isspace(N[c]) /\ ~islilspecial(N[c]) /\ N[c] # NUL

\* The assignment of the command that returns at event i was a single one,
\* to a Variable without a watch
PlainAssignment(i) ==
    LET c == CHOOSE c \in 1..(i - 1) :
                 /\ trace[c].ev = "cmd" /\ i = EndOf(c)
        sets == {k \in c..i : trace[k].ev = "setvar"}
    IN \E k \in sets : sets = {k} /\ trace[k].w = NULL

-----------------------------------------------------------------------------
(* Assignments of a host call, replayed on the arrays of Variables *)

\* The assignments in the history of the call, in order
SetEvents == SelectSeq(trace, LAMBDA e : e.ev = "setvar")

\* What the assignment of event e does to the arrays
ApplySet(arrs, e) ==
    IF e.created
    THEN [arrs EXCEPT ![e.tgt.env] =
              Append(@, [n |-> e.name, w |-> NULL, env |-> e.tgt.env,
                         v |-> e.val])]
    ELSE [arrs EXCEPT ![e.tgt.env][e.tgt.idx].v = e.val]

\* The arrays after the first n assignments of the call
RECURSIVE Replay(_)
Replay(n) ==
    IF n = 0 THEN last.vars0 ELSE ApplySet(Replay(n - 1), SetEvents[n])

\* The newest Variable of that name in an array, by its index; 0 for none
LatestIn(arr, name) ==
    IF \E i \in 1..Len(arr) : arr[i].n = name
    THEN CHOOSE i \in 1..Len(arr) :
             arr[i].n = name /\ \A j \in (i + 1)..Len(arr) : arr[j].n # name
    ELSE 0

\* Lookup as the specification words it: the current Environment, then,
\* from another Environment than the root, the root
Lookup(arrs, cur, name) ==
    IF LatestIn(arrs[cur], name) # 0
    THEN [env |-> cur, idx |-> LatestIn(arrs[cur], name)]
    ELSE IF cur # lil.rootenv /\ LatestIn(arrs[lil.rootenv], name) # 0
    THEN [env |-> lil.rootenv, idx |-> LatestIn(arrs[lil.rootenv], name)]
    ELSE NULLVAR

\* The host call was lil_set_var; its own assignment is the first of the
\* history, and the arrays now are the arrays before with the assignments
\* of the history applied: nothing else has changed
SetVarCall ==
    /\ last.op = "lil_set_var"
    /\ Len(SetEvents) >= 1
    /\ SetEvents[1].name = last.name /\ SetEvents[1].val = last.val
    /\ SetEvents[1].mode = last.local /\ SetEvents[1].cur = last.env0

FrameOfCall == Replay(Len(SetEvents)) = VarsOf(lil.envs)

\* The slot a Variable created in Environment env by assignment n gets
NewSlot(n, env) == [env |-> env, idx |-> Len(Replay(n - 1)[env]) + 1]

-----------------------------------------------------------------------------
(* C4 *)

\* The names of the Variables there are
NamesInUse ==
    {<<"x">>} \cup UNION {{lil.envs[e].var[i].n :
                               i \in 1..Len(lil.envs[e].var)} :
                           e \in 1..Len(lil.envs)}

\* C4: lookup from an Environment finds a Variable of that name of the
\* Environment itself, else, from another Environment than the root, one of
\* the root, else nothing; a Variable of a frame in between is never found,
\* neither by lil_find_var in any state nor by any read of the history.
C4_LookupTwoLevels ==
    /\ \A e \in 1..Len(lil.envs) : \A n \in NamesInUse :
           LET r == lil_find_var(lil, e, n)
               here == LatestIn(lil.envs[e].var, n) # 0
               inroot == LatestIn(lil.envs[lil.rootenv].var, n) # 0
           IN /\ r = NULLVAR <=> ~here /\ ~inroot
              /\ r # NULLVAR =>
                     /\ VarOf(lil, r).n = n
                     /\ r.env = IF here THEN e ELSE lil.rootenv
    /\ \A k \in Events :
           trace[k].ev = "getvar" =>
               \/ trace[k].found = NULLVAR
               \/ trace[k].found.env \in {trace[k].cur, lil.rootenv}

\* `func g {} {set x}; func f {} {local x; set x 1; g}; f` has run: g
\* read x while f's frame held x = 1, found no Variable and gave the
\* empty Value
C4_Witness ==
    /\ last.op = "lil_parse" /\ last.script = "scope"
    /\ last.r = <<>>
    /\ \E k \in Events :
           /\ trace[k].ev = "getvar" /\ trace[k].name = <<"x">>
           /\ trace[k].hidden /\ trace[k].found = NULLVAR
           /\ trace[k].val = <<>>
    /\ \E k \in Events :
           /\ trace[k].ev = "setvar" /\ trace[k].name = <<"x">>
           /\ trace[k].val = <<"1">> /\ ~trace[k].created

-----------------------------------------------------------------------------
(* C5 *)

\* C5: an assignment in LOCAL mode overwrites the Variable that lookup
\* (current Environment, then root) finds and creates none; when lookup
\* finds none it creates one Variable, in the current Environment.  No
\* other Variable changes by the assignment: after lil_set_var the arrays
\* differ from those before by the assignments of the call alone (its own
\* and those the watch programs made).
C5_LocalAssignment ==
    SetVarCall =>
        /\ FrameOfCall
        /\ \A n \in 1..Len(SetEvents) :
               SetEvents[n].mode = LIL_SETVAR_LOCAL =>
                   LET e == SetEvents[n]
                       found == Lookup(Replay(n - 1), e.cur, e.name)
                   IN IF found # NULLVAR
                      THEN ~e.created /\ e.tgt = found
                      ELSE e.created /\ e.tgt = NewSlot(n, e.cur)

\* From a pushed Environment, lil_set_var in LOCAL mode has overwritten the
\* Variable x of the root
C5_Witness ==
    /\ SetVarCall /\ last.local = LIL_SETVAR_LOCAL
    /\ last.env0 # lil.rootenv
    /\ ~SetEvents[1].created /\ SetEvents[1].tgt.env = lil.rootenv
    /\ VarOf(lil, SetEvents[1].tgt).v = last.val

-----------------------------------------------------------------------------
(* C6 *)

\* C6: an assignment in LOCAL_NEW mode creates a Variable in the current
\* Environment, whatever Variables of that name there are, and changes no
\* existing Variable; lookup of the name from that Environment then finds
\* the new Variable, which holds the assigned Value, and a read from a
\* frame other than the root gives that Value.
C6_LocalNewAssignment ==
    SetVarCall =>
        /\ FrameOfCall
        /\ \A n \in 1..Len(SetEvents) :
               SetEvents[n].mode = LIL_SETVAR_LOCAL_NEW =>
                   /\ SetEvents[n].created
                   /\ SetEvents[n].tgt = NewSlot(n, SetEvents[n].cur)
        /\ last.local = LIL_SETVAR_LOCAL_NEW =>
               /\ Len(SetEvents) = 1
               /\ lil_find_var(lil, lil.env, last.name) = SetEvents[1].tgt
               /\ VarOf(lil, SetEvents[1].tgt).v = last.val
               /\ lil.env # lil.rootenv =>
                      lil_get_var(Run(0), last.name).r = last.val

\* lil_set_var in LOCAL_NEW mode has created a second Variable x in an
\* Environment that held one, with another Value
C6_Witness ==
    /\ SetVarCall /\ last.local = LIL_SETVAR_LOCAL_NEW
    /\ LatestIn(last.vars0[last.env0], last.name) # 0
    /\ last.vars0[last.env0][LatestIn(last.vars0[last.env0], last.name)].v
           # last.val
    /\ Len(lil.envs[lil.env].var) = Len(last.vars0[last.env0]) + 1

-----------------------------------------------------------------------------
(* C7 *)

-----------------------------------------------------------------------------
(* C10 *)

\* Event k overwrites a Variable that carries a watch program
OverwritesWatched(k) ==
    /\ trace[k].ev = "setvar" /\ ~trace[k].created
    /\ trace[k].w # NULL /\ Len(trace[k].w) > 0

\* C10: every assignment that overwrites a Variable with a non-empty watch
\* program is followed at once by one parse of that program, entered with
\* the Variable's owning Environment current; in a call of lil_set_var
\* there is no other parse than these, so each watch runs once for each
\* overwrite, and a call in LOCAL_NEW mode, which creates, runs none.
C10_WatchRunsOnce ==
    /\ \A k \in Events : OverwritesWatched(k) =>
           /\ k < Len(trace)
           /\ trace[k + 1].ev = "parse"
           /\ trace[k + 1].code = trace[k].w
           /\ trace[k + 1].cur = trace[k].tgt.env
           /\ trace[k + 1].depth = trace[k].depth + 1
    /\ last.op = "lil_set_var" =>
           /\ \A k \in Events : trace[k].ev = "parse" =>
                  k > 1 /\ OverwritesWatched(k - 1)
           /\ last.local = LIL_SETVAR_LOCAL_NEW =>
                  \A k \in Events : trace[k].ev # "parse"
           /\ lil.env = last.env0

\* From a pushed Environment, lil_set_var has overwritten the watched
\* Variable x of the root: the watch ran with the root current, where its
\* command was dispatched, and the pushed Environment is current again
C10_Witness ==
    /\ last.op = "lil_set_var" /\ last.env0 # lil.rootenv
    /\ lil.env = last.env0
    /\ \E k \in Events :
           /\ OverwritesWatched(k) /\ trace[k].tgt.env = lil.rootenv
           /\ trace[k].cur = last.env0
           /\ trace[k + 2].ev = "cmd" /\ trace[k + 2].cur = lil.rootenv
    /\ Cardinality({k \in Events : trace[k].ev = "parse"}) = 1

-----------------------------------------------------------------------------
(* C11 *)

\* Event k is an assignment that overwrote a watched Variable: the parse
\* call of its watch program is entered at event k + 1
RunsWatch(k) == k \in Events /\ trace[k].ev = "setvar" /\ trace[k].w # NULL

\* The current Environment just after event q
EnvAfter(q) == IF q < Len(trace) THEN trace[q + 1].cur ELSE lil.env

\* C11: the parse call of a watch program does not reset breakrun on entry
\* and does not take the return-value slot of the Variable's Environment on
\* exit, and the Environment current at the assignment is current again
\* when the watch has run.
C11_WatchIsFragment ==
    \A k \in Events : RunsWatch(k) =>
        /\ trace[k + 1].brk = trace[k + 1].brk0
        /\ ~trace[EndOf(k + 1)].took
        /\ EnvAfter(EndOf(k + 1)) = trace[k].cur

-----------------------------------------------------------------------------
(* C12 *)

\* A host call that runs a program or a command
IsEvaluation == last.op \in {"lil_parse", "lil_call"}

\* C12: the Environment that is current when a parse call or the dispatch
\* of a command returns is the one that was current when it started, and
\* so for the call the host made: every frame pushed on the way was popped.
C12_PushPopPaired ==
    /\ \A k \in Events :
           trace[k].ev \in {"parse", "cmd"} =>
               trace[EndOf(k)].cur = trace[k].cur
    /\ IsEvaluation => lil.env = last.env0

\* `func f {} {error e; set z 1}; f` has run: the body ran in a pushed
\* frame, stopped on the error, and the Environment of the call is current
C12_Witness ==
    /\ last.op = "lil_parse" /\ last.script = "func_error"
    /\ lil.error # ERROR_NOERROR
    /\ lil.env = last.env0
    /\ \E i, k \in Events :
           /\ trace[i].ev = "cmd" /\ trace[i].proc = "" /\ trace[i].func # 0
           /\ k > i /\ k < EndOf(i)
           /\ IsCmd(k, "fnc_error")
           /\ trace[k].cur # trace[i].cur
           /\ trace[EndOf(i)].err # ERROR_NOERROR

-----------------------------------------------------------------------------
(* C13 *)

\* Event i dispatches a script Function whose only parameter is `args`
CallsArgsFunc(i) ==
    /\ i \in Events /\ trace[i].ev = "cmd"
    /\ trace[i].func # 0 /\ trace[i].proc = ""
    /\ lil.funcs[trace[i].func].argnames = <<S_args>>

\* The items of a Value read as a list
ItemsOf(val) == lil_subst_to_list(Run(0), val).r

\* C13 (amended): a command that calls a script Function whose only
\* parameter is `args` creates `args` as the first Variable of the new
\* frame, and its Value read as a list gives back the words of the whole
\* command, the name the Function was called by first; lil_call binds
\* `args` to its arguments alone, joined by spaces.
C13_ArgsIsWholeLine ==
    /\ \A i \in Events : CallsArgsFunc(i) =>
           /\ trace[i + 1].ev = "setvar" /\ trace[i + 1].name = S_args
           /\ trace[i + 1].created
           /\ trace[i + 1].tgt.env # trace[i].cur
           /\ trace[i + 1].tgt.idx = 1
           /\ ItemsOf(trace[i + 1].val) = trace[i].words
    /\ (/\ last.op = "lil_call"
        /\ lil_find_cmd(Run(0), last.funcname) # 0
        /\ lil.funcs[lil_find_cmd(Run(0), last.funcname)].proc = ""
        /\ lil.funcs[lil_find_cmd(Run(0), last.funcname)].argnames
               = <<S_args>>) =>
           /\ trace[1].ev = "setvar" /\ trace[1].name = S_args
           /\ trace[1].val = JoinFrom(last.argv, 1)

\* C13 as stated: the Value of `args` holds the arguments of the call
C13_AsStated ==
    \A i \in Events : CallsArgsFunc(i) =>
        /\ trace[i + 1].ev = "setvar" /\ trace[i + 1].name = S_args
        /\ ItemsOf(trace[i + 1].val) = Tail(trace[i].words)

\* `func g args {quote $args}; g a {b c}` has run: args was g a {b c}
C13_Witness ==
    /\ last.op = "lil_parse" /\ last.script = "args" /\ last.polls = 0
    /\ last.r = <<"g", " ", "a", " ", "{", "b", " ", "c", "}">>
    /\ \E i \in Events :
           /\ CallsArgsFunc(i)
           /\ trace[i].words = <<<<"g">>, <<"a">>, <<"b", " ", "c">>>>
           /\ trace[i + 1].val = last.r



(* C14: the catcher recursion is bounded and balanced *)

IsUnknown(i) ==
    /\ trace[i].ev = "cmd" /\ trace[i].func = 0
    /\ Len(trace[i].words[1]) > 0
    /\ trace[i].catcher # NULL

\* C14: the depth of catcher invocations stays within 0..16384.  An unknown
\* command met below the limit runs the catcher script as a function body
\* in a fresh Environment that holds the words in args, its result is the
\* command's result, and depth and Environment are afterwards what they
\* were.  At the limit the catcher does not run and the error "catcher
\* limit reached while trying to call unknown function <name>" is set.
C14_CatcherBounded ==
    /\ lil.in_catcher \in 0..MAX_CATCHER_DEPTH
    /\ \A i \in Events :
          /\ trace[i].catch \in 0..MAX_CATCHER_DEPTH
          /\ IsUnknown(i) =>
                LET d == EndOf(i) IN
                /\ trace[d].catch = trace[i].catch
                /\ trace[d].cur = trace[i].cur
                /\ IF trace[i].catch < MAX_CATCHER_DEPTH
                   THEN /\ trace[i + 1].ev = "setvar"
                        /\ trace[i + 1].name = S_args
                        /\ trace[i + 1].created
                        /\ trace[i + 1].tgt.env # trace[i].cur
                        /\ trace[i + 1].tgt.idx = 1
                        /\ trace[i + 1].val
                              = lil_list_to_value(trace[i].words, 1)
                        /\ trace[i + 2].ev = "parse"
                        /\ trace[i + 2].code = trace[i].catcher
                        /\ trace[i + 2].funclevel = 1
                        /\ trace[i + 2].cur = trace[i + 1].tgt.env
                        /\ trace[i + 2].catch = trace[i].catch + 1
                        /\ EndOf(i + 2) = d - 1
                        /\ trace[d].val = trace[d - 1].val
                   ELSE /\ d = i + 1
                        /\ trace[d].val = NULL
                        /\ trace[d].err = ERROR_DEFAULT
                        /\ lil.error = ERROR_DEFAULT
                              => lil.err_msg
                                    = S_catcher_limit_
                                         \o lil_to_string(trace[i].words[1])

\* The catcher has run at depth 16384, the unknown command inside it met
\* the limit, and the interpreter is back at depth 16383
C14_Witness ==
    /\ last.op = "dispatch"
    /\ lil.in_catcher = MAX_CATCHER_DEPTH - 1
    /\ lil.env = MAX_CATCHER_DEPTH
    /\ lil.error = ERROR_DEFAULT
    /\ \E i \in Events : IsUnknown(i) /\ trace[i].catch = MAX_CATCHER_DEPTH
    /\ \E i \in Events : /\ trace[i].ev = "parse"
                         /\ trace[i].code = CatcherCode
                         /\ trace[i].catch = MAX_CATCHER_DEPTH



(* C15: the lookup of a dotted command name *)

\* The part of a name before its first dot
Prefix(name) ==
    IF DotIndex(name) >= 0 THEN SubSeq(name, 1, DotIndex(name)) ELSE name

\* C15: a command name with a dot in it is resolved by the part before its
\* first dot alone (the command of that name if one is registered, none
\* otherwise), and after the lookup the name is character for character
\* what it was before.
C15_DottedLookup ==
    \A i \in Events :
       trace[i].ev = "cmd" /\ DotIndex(trace[i].name0) >= 0 =>
          /\ trace[i].words[1] = trace[i].name0
          /\ trace[i].func # 0 <=> Prefix(trace[i].name0) \in trace[i].cmds
          /\ trace[i].func # 0 =>
                /\ trace[i].func \in 1..Len(lil.funcs)
                /\ lil.funcs[trace[i].func].name = Prefix(trace[i].name0)

\* a.b has run the function a, and no.x was found unknown
C15_Witness ==
    /\ last.op = "lil_parse" /\ last.script = "dotted"
    /\ \E i, j \in Events :
          /\ IsCmd(i, "") /\ trace[i].name0 = <<"a", ".", "b">>
          /\ trace[i].func # 0
          /\ lil.funcs[trace[i].func].name = <<"a">>
          /\ trace[EndOf(i)].val = <<"1">>
          /\ IsCmd(j, "") /\ trace[j].name0 = <<"n", "o", ".", "x">>
          /\ trace[j].func = 0



(* C16: registering a name again *)

\* No Function has both a host procedure and a script body
OneBody(f) ==
    IF f.proc # "" THEN f.code = NULL /\ f.argnames = NULL
    ELSE f.code # NULL

\* C16: when a command name that is already registered is registered again,
\* by func or by lil_register, the Function of that name is the one that is
\* filled in: it is the same Function at the same place of the command
\* vector, the vector is as long as it was, and afterwards each Function
\* has either a host procedure or a script body, never both or neither.
C16_ReplacesInPlace ==
    /\ \A i \in Events :
          trace[i].ev = "add_func" /\ trace[i].pos0 # 0 =>
             /\ trace[i].id = trace[i].id0
             /\ trace[i].pos = trace[i].pos0
             /\ trace[i].len = trace[i].len0
    /\ \A k \in 1..Len(lil.cmd) : OneBody(lil.funcs[lil.cmd[k]])



(* C17: text that ends inside a brace, a bracket or a quoted string *)

IsUnbalanced(i) == trace[i].ev = "unbalanced"

\* No command is dispatched after event i unless try has caught the error
NotDispatched(i) ==
    \A j \in Events :
       j > i /\ trace[j].ev = "cmd" =>
          \E k \in (i + 1)..(j - 1) : trace[k].ev = "caught"

\* C17: when the text ends before the closing character of a brace, a
\* bracket or a quoted string and no error is pending, the error slot gets
\* the kind Unbalanced and the message "expected <closing character>"; when
\* an error is pending already, the slot keeps it.  In both cases the
\* command line is not dispatched.
C17_Unbalanced ==
    \A i \in Events : IsUnbalanced(i) =>
       /\ trace[i].expected \in {"}", "]", "\"", "'"}
       /\ IF trace[i].err0 = ERROR_NOERROR
          THEN /\ trace[i].err = ERROR_UNBALANCED
               /\ trace[i].msg = S_expected_ \o <<trace[i].expected>>
          ELSE /\ trace[i].err = trace[i].err0
               /\ trace[i].msg = trace[i].msg0
       /\ NotDispatched(i)

\* The claim as it is written: every such end of text sets Unbalanced
C17_AsStated ==
    \A i \in Events : IsUnbalanced(i) =>
       /\ trace[i].err = ERROR_UNBALANCED
       /\ trace[i].msg = S_expected_ \o <<trace[i].expected>>
       /\ NotDispatched(i)

\* An unclosed bracket and an unclosed quote were caught by try, the last
\* line ended inside a quoted string and the host finds Unbalanced
C17_Witness ==
    /\ last.op = "lil_parse" /\ last.script = "unbalanced_all"
    /\ lil.error = ERROR_UNBALANCED
    /\ lil.err_msg = S_expected_ \o <<"\"">>
    /\ \E i, j, k \in Events :
          /\ i < j /\ j < k
          /\ IsUnbalanced(i) /\ trace[i].expected = "]"
          /\ IsUnbalanced(j) /\ trace[j].expected = "'"
          /\ IsUnbalanced(k) /\ trace[k].expected = "\""
          /\ \A m \in Events : m > k => trace[m].ev = "parsed"



(* C18: the interrupt poll *)

\* C18: when the poll before a command reads true, the command is not
\* executed, the error "interrupted" is set, no further command of the
\* evaluation runs, and the host's parse call returns with the error
\* "interrupted" pending.
C18_InterruptUnwinds ==
    \A i \in Events : trace[i].ev = "interrupted" =>
       /\ trace[i].err = ERROR_DEFAULT
       /\ \A j \in Events : j > i => trace[j].ev # "cmd"
       /\ lil.error = ERROR_DEFAULT
       /\ lil.err_msg = S_interrupted



(* C19: interpreter instances *)

\* C19: what the interpreter made by jaileval does changes neither the
\* Variables nor the commands of the interpreter that called jaileval, nor
\* the value that reading a Variable gives there.
C19_Independent ==
    \A i \in Events : trace[i].ev = "jailed" =>
       /\ trace[i].vars = trace[i].vars0
       /\ trace[i].cmds = trace[i].cmds0
       /\ trace[i].reads = trace[i].reads0



(* C20: enveval *)

IsEnveval(i) == IsCmd(i, "fnc_enveval") /\ Len(trace[i].words) >= 3

\* The events of one kind between lo and hi that the command running at
\* parse depth d logged itself
Own(lo, hi, kind, d) ==
    {j \in (lo + 1)..(hi - 1) : trace[j].ev = kind /\ trace[j].depth = d}

\* The parse call of the body of the enveval dispatched at i
BodyOf(i) ==
    LET P == {j \in (i + 1)..(EndOf(i) - 1) :
                 /\ trace[j].ev = "parse"
                 /\ trace[j].depth = trace[i].depth + 1
                 /\ trace[j].cur # trace[i].cur}
    IN IF P = {} THEN 0 ELSE Nth(P, 1)

\* C20: enveval invars [outvars] body runs body in a frame pushed for it,
\* in which each of the invars is a new Variable holding the value that
\* reading it in the caller gave.  After the body the frame is popped, and
\* the Variables named in outvars (in invars when outvars is absent), and
\* no others, are assigned in the caller's Environment the values that
\* reading them in the frame gave.
C20_Enveval ==
    \A i \in Events : IsEnveval(i) =>
       LET d == trace[i].depth
           b == BodyOf(i)
           e == EndOf(b)
           invars == ItemsOf(trace[i].words[2])
           back == IF Len(trace[i].words) > 3
                   THEN ItemsOf(trace[i].words[3]) ELSE invars
           body == trace[i].words[IF Len(trace[i].words) > 3 THEN 4 ELSE 3]
           gin == Own(i, b, "getvar", d)
           sin == Own(i, b, "setvar", d)
           gout == Own(e, EndOf(i), "getvar", d)
           sout == Own(e, EndOf(i), "setvar", d)
       IN /\ b # 0
          /\ trace[b].code = body /\ trace[b].funclevel = 0
          /\ Cardinality(gin) = Len(invars)
          /\ Cardinality(sin) = Len(invars)
          /\ \A k \in 1..Len(invars) :
                /\ trace[Nth(gin, k)].name = invars[k]
                /\ trace[Nth(gin, k)].cur = trace[i].cur
                /\ trace[Nth(sin, k)].name = invars[k]
                /\ trace[Nth(sin, k)].created
                /\ trace[Nth(sin, k)].tgt.env = trace[b].cur
                /\ trace[Nth(sin, k)].val = trace[Nth(gin, k)].val
          /\ Cardinality(gout) = Len(back)
          /\ Cardinality(sout) = Len(back)
          /\ \A k \in 1..Len(back) :
                /\ trace[Nth(gout, k)].name = back[k]
                /\ trace[Nth(gout, k)].cur = trace[b].cur
                /\ trace[Nth(sout, k)].name = back[k]
                /\ trace[Nth(sout, k)].mode = LIL_SETVAR_LOCAL
                /\ trace[Nth(sout, k)].cur = trace[i].cur
                /\ trace[Nth(sout, k)].val = trace[Nth(gout, k)].val
          /\ trace[EndOf(i)].cur = trace[i].cur

\* The frame got y = 10 and z = 88, the body changed y and z, and only
\* y = 44 came back: the script returns 44 88
C20_Witness ==
    /\ last.op = "lil_parse" /\ last.script = "enveval_out"
    /\ last.r = <<"4", "4", " ", "8", "8">>
    /\ \E i \in Events :
          /\ IsEnveval(i) /\ Len(trace[i].words) = 4
          /\ trace[BodyOf(i)].cur # trace[i].cur
          /\ \E j \in Own(i, BodyOf(i), "setvar", trace[i].depth) :
                /\ trace[j].name = <<"z">>
                /\ trace[j].val = <<"8", "8">>
                /\ trace[j].tgt.env = trace[BodyOf(i)].cur
          /\ Cardinality(Own(EndOf(BodyOf(i)), EndOf(i), "setvar",
                             trace[i].depth)) = 1
          /\ \E j \in Own(EndOf(BodyOf(i)), EndOf(i), "setvar",
                          trace[i].depth) :
                /\ trace[j].name = <<"y">>
                /\ trace[j].val = <<"4", "4">>
                /\ trace[j].tgt.env = trace[i].cur


-----------------------------------------------------------------------------
(* C21: topeval, upeval and downeval *)

IsReeval(i) ==
    \/ IsCmd(i, "fnc_topeval") \/ IsCmd(i, "fnc_upeval")
    \/ IsCmd(i, "fnc_downeval")

\* The command dispatched at i changes the current Environment for its
\* fragment
Retargets(i) ==
    \/ IsCmd(i, "fnc_topeval")
    \/ IsCmd(i, "fnc_upeval") /\ trace[i].cur # lil.rootenv
    \/ IsCmd(i, "fnc_downeval") /\ trace[i].down # 0

\* The commands that retarget and whose fragment is running at event j
Retargeting(j) ==
    {i \in 1..(j - 1) : /\ trace[i].inst = trace[j].inst
                        /\ Retargets(i) /\ EndOf(i) > j}

\* C21: topeval, upeval and downeval return with the current Environment
\* and the "down" slot they were entered with, whether or not the fragment
\* raised an error; the fragment of a topeval or of an upeval below the
\* root runs with the "down" slot holding the Environment the command was
\* invoked in, and a downeval whose innermost retargeting command is such a
\* topeval or upeval evaluates its fragment in that Environment.
C21_Reeval ==
    \A i \in Events : IsReeval(i) =>
       /\ trace[EndOf(i)].cur = trace[i].cur
       /\ trace[EndOf(i)].down = trace[i].down
       /\ Len(JoinFrom(Tail(trace[i].words), 1)) > 0 =>
             /\ trace[i + 1].ev = "parse"
             /\ trace[i + 1].code = JoinFrom(Tail(trace[i].words), 1)
             /\ IsCmd(i, "fnc_topeval") =>
                   /\ trace[i + 1].cur = lil.rootenv
                   /\ trace[i + 1].down = trace[i].cur
             /\ IsCmd(i, "fnc_upeval") /\ Retargets(i) =>
                   /\ trace[i + 1].cur # trace[i].cur
                   /\ trace[i + 1].down = trace[i].cur
             /\ IsCmd(i, "fnc_downeval") /\ Retargeting(i) # {} =>
                   LET up == Nth(Retargeting(i),
                                 Cardinality(Retargeting(i)))
                   IN ~IsCmd(up, "fnc_downeval") =>
                         trace[i + 1].cur = trace[up].cur

\* f runs topeval {downeval {error e}}: the fragment of topeval runs in the
\* root with the "down" slot on the frame of f, the fragment of downeval
\* runs in the frame of f, and both commands return with the error set and
\* the Environment and the "down" slot they were entered with
C21_Witness ==
    /\ last.op = "lil_parse" /\ last.script = "downeval"
    /\ \E t, d1 \in Events :
          /\ IsCmd(t, "fnc_topeval") /\ IsCmd(d1, "fnc_downeval")
          /\ t < d1 /\ d1 < EndOf(t)
          /\ trace[t].cur # lil.rootenv /\ trace[t].down = 0
          /\ trace[d1].cur = lil.rootenv /\ trace[d1].down = trace[t].cur
          /\ trace[d1 + 1].cur = trace[t].cur /\ trace[d1 + 1].down = 0
          /\ trace[EndOf(d1)].err # ERROR_NOERROR
          /\ trace[EndOf(d1)].cur = lil.rootenv
          /\ trace[EndOf(d1)].down = trace[t].cur
          /\ trace[EndOf(t)].err # ERROR_NOERROR
          /\ trace[EndOf(t)].cur = trace[t].cur
          /\ trace[EndOf(t)].down = 0



-----------------------------------------------------------------------------
(* C22: the "ignore end-of-line" flag inside [ ... ] *)

\* Event b ends a balanced, non-empty [ ... ] word
IsBracket(b) ==
    /\ trace[b].ev = "bracket" /\ trace[b].ok /\ Len(trace[b].code) > 0

\* The parse call that evaluated the contents of the bracket word ended at b
ParseOf(b) == CHOOSE i \in 1..(b - 1) : trace[i].ev = "parse"
                                         /\ EndOf(i) = b - 1

\* The events of the parse call entered at i itself: its commands
Within(i) == {k \in Events : /\ trace[k].ev \in {"cmd", "done"}
                             /\ trace[k].pid = trace[i].pid}

\* C22: the contents of a [ ... ] word are evaluated as a script with the
\* "ignore end-of-line" flag OFF: LF, CR and ; inside the brackets separate
\* commands, and the word is the result of the evaluation.  After the
\* bracket word the flag has the value it had before it.
C22_BracketEol ==
    \A b \in Events : IsBracket(b) =>
       /\ trace[b - 1].ev = "parsed"
       /\ trace[ParseOf(b)].code = trace[b].code
       /\ trace[ParseOf(b)].eol = 0
       /\ \A k \in Within(ParseOf(b)) : trace[k].eol = 0
       /\ trace[b].val = trace[b - 1].val
       /\ trace[b].eol = trace[b].eol0

\* As stated: the contents are evaluated with the flag ON, so that a ; in
\* them does not end a command
C22_AsStated ==
    \A b \in Events : IsBracket(b) =>
       /\ trace[b - 1].ev = "parsed"
       /\ trace[ParseOf(b)].eol = 1
       /\ Cardinality({k \in Within(ParseOf(b)) : trace[k].ev = "cmd"}) <= 1
       /\ trace[b].eol = trace[b].eol0

\* In the list {[quote a;quote b];c}, read with the flag on, the bracket
\* word runs quote a and quote b as two commands and is b; after it the
\* flag is on again, so that ;c is the second item and foreach returns b c
C22_Witness ==
    /\ last.op = "lil_parse" /\ last.script = "bracket_eol"
    /\ last.r = <<"b", " ", "c">>
    /\ \E b \in Events :
          /\ IsBracket(b) /\ trace[b].eol0 = 1 /\ trace[b].eol = 1
          /\ trace[ParseOf(b)].eol = 0
          /\ Cardinality({k \in Within(ParseOf(b)) :
                             trace[k].ev = "cmd"}) = 2
          /\ trace[b].val = <<"b">>


-----------------------------------------------------------------------------
(* C23: the round trip of a List through a Value *)

\* C23: a List whose items hold no control characters, turned into a Value
\* by lil_list_to_value with escaping and read back by lil_subst_to_list,
\* comes back with the same number of items, each equal to the original
\* one, and the interpreter is left without an error.
C23_RoundTrip ==
    last.op = "lil_subst_to_list" =>
       /\ Len(last.r) = Len(last.list)
       /\ \A i \in 1..Len(last.list) : last.r[i] = last.list[i]
       /\ lil.error = ERROR_NOERROR

\* The List of the empty item and }{ is written {} {}"\c"{}"\o"{} and read
\* back as the same two items
C23_Witness ==
    /\ last.op = "lil_subst_to_list"
    /\ last.list = <<<<>>, <<"}", "{">>>>
    /\ last.code = <<"{", "}", " ", "{", "}", "\"", "\\", "c", "\"", "{",
                     "}", "\"", "\\", "o", "\"", "{", "}">>
    /\ last.r = last.list


-----------------------------------------------------------------------------
(* C24: the precedence of the operators of expressions *)

\* The levels of the grammar, the loosest first
LevelOf(op) ==
    CASE op = "||" -> 1
      [] op = "&&" -> 2
      [] op = "|" -> 3
      [] op = "&" -> 4
      [] op \in {"==", "!="} -> 5
      [] op \in {"<", ">", "<=", ">="} -> 6
      [] op \in {"<<", ">>"} -> 7
      [] op \in {"+", "-"} -> 8
      [] op \in {"*", "/", "\\", "%"} -> 9

Truth(b) == IF b THEN 1 ELSE 0

\* A number, and Div0 for a division by zero
Num(x) == <<x>>

Div0 == <<>>

\* a op b, Div0 also when a or b is
Applied(op, a, b, undef) ==
    IF a = Div0 \/ b = Div0 THEN Div0
    ELSE LET x == a[1]
             y == b[1]
         IN CASE op = "||" -> Num(Truth(x # 0 \/ y # 0))
              [] op = "&&" -> Num(Truth(x # 0 /\ y # 0))
              [] op = "|" -> Num(COr(x, y))
              [] op = "&" -> Num(CAnd(x, y))
              [] op = "==" -> Num(Truth(x = y))
              [] op = "!=" -> Num(Truth(x # y))
              [] op = "<" -> Num(Truth(x < y))
              [] op = ">" -> Num(Truth(x > y))
              [] op = "<=" -> Num(Truth(x <= y))
              [] op = ">=" -> Num(Truth(x >= y))
              [] op = "<<" -> Num(CShl(x, y, undef))
              [] op = ">>" -> Num(CShr(x, y, undef))
              [] op = "+" -> Num(x + y)
              [] op = "-" -> Num(x - y)
              [] op = "*" -> Num(x * y)
              [] op \in {"/", "\\"} -> IF y = 0 THEN Div0 ELSE Num(CDiv(x, y))
              [] op = "%" -> IF y = 0 THEN Div0 ELSE Num(CMod(x, y))

Negated(un, x) ==
    CASE un = "-" -> -x
      [] un = "+" -> x
      [] un = "~" -> CNot(x)
      [] un = "!" -> Truth(x = 0)

\* The call returned the number v, or failed for a division by zero
Evaluated(v) ==
    IF v = Div0
    THEN /\ last.r = NULL /\ lil.error = ERROR_FIXHEAD
         /\ lil.err_msg = S_division_by_zero
    ELSE last.r = lil_alloc_integer(v[1]) /\ lil.error = ERROR_NOERROR

AllNumbers == last.x # NonNumeric /\ last.y # NonNumeric

\* C24: x op1 y op2 z is x op1 (y op2 z) when op2 is of a tighter level than
\* op1 and (x op1 y) op2 z otherwise, the levels being, from the loosest,
\* ||, &&, |, &, == !=, < > <= >=, << >>, + -, * / \ %; a unary operator
\* applies to its operand before any binary one; and the expressions of
\* lil_tests["expr"], 1 + 2 * 3 and 1 || 0 && 0 have the values stated.
C24_Precedence ==
    last.op = "lil_eval_expr" =>
       /\ last.form = "binary" =>
             Evaluated(IF LevelOf(last.op2) > LevelOf(last.op1)
                       THEN Applied(last.op1, Num(last.x),
                                    Applied(last.op2, Num(last.y),
                                            Num(last.z), last.undef),
                                    last.undef)
                       ELSE Applied(last.op2,
                                    Applied(last.op1, Num(last.x),
                                            Num(last.y), last.undef),
                                    Num(last.z), last.undef))
       /\ last.form = "unary" /\ AllNumbers =>
             Evaluated(Applied(last.op1,
                               Num(Negated(last.un, NumberOf(last.x))),
                               Num(NumberOf(last.y)), last.undef))
       /\ last.form = "test" => last.r = ExprTests[last.i].val

\* 1 + 2 * 2 is 1 + (2 * 2)
C24_Witness ==
    /\ last.op = "lil_eval_expr"
    /\ last.form = "binary" /\ last.op1 = "+" /\ last.op2 = "*"
    /\ last.code = <<"1", " ", "+", " ", "2", " ", "*", " ", "2">>
    /\ last.r = <<"5">>


-----------------------------------------------------------------------------
(* C25: operands that are no numbers *)

\* The expression of the call had an operand that is no number
HasNonNumeric ==
    /\ last.op = "lil_eval_expr" /\ last.form \in {"pair", "unary", "not"}
    /\ \/ last.x = NonNumeric
       \/ last.form # "not" /\ last.y = NonNumeric

\* That operand replaced by 1
AsOne(x) == IF x = NonNumeric THEN <<"1">> ELSE x

\* The text of the expression with 1 for the operands that are no numbers
CodeAsOne ==
    CASE last.form = "pair" ->
            ExprText(<<AsOne(last.x), OpText(last.op1), AsOne(last.y)>>, TRUE)
      [] last.form = "unary" ->
            ExprText(<<OpText(last.un) \o AsOne(last.x), OpText(last.op1),
                       AsOne(last.y)>>, TRUE)
      [] last.form = "not" -> OpText(last.un) \o AsOne(last.x)

-----------------------------------------------------------------------------
(* C26: return inside nested bodies *)

\* The body of the innermost script Function running at event i, 0 for none
BodyAround(i) ==
    LET B == {b \in 1..(i - 1) : /\ IsBody(b) /\ EndOf(b) > i
                                 /\ trace[b].inst = trace[i].inst}
    IN IF B = {} THEN 0 ELSE Nth(B, Cardinality(B))

\* The commands dispatched in the body entered at b that are running at i
Around(b, i) ==
    {k \in (b + 1)..(i - 1) : trace[k].ev = "cmd" /\ EndOf(k) > i}

\* The commands whose bodies the return may be nested in
Nesting(procs, b, i) ==
    /\ \A k \in Around(b, i) : trace[k].proc \in procs
    /\ trace[i].depth = trace[b].depth + Cardinality(Around(b, i))

\* The return dispatched at i unwinds to the frame of the Function whose
\* body was entered at b: no command is dispatched any more before the body
\* returns, and the body returns the argument of the return
Unwinds(b, i) ==
    /\ \A j \in (i + 1)..(EndOf(b) - 1) : trace[j].ev # "cmd"
    /\ trace[EndOf(b)].val = ArgOf(i, 1)

\* C26: a return in the body of a script Function, also in the bodies of
\* if, while, for, foreach, try, eval and enveval commands nested in it,
\* ends the body: no later command is executed and the call returns the
\* argument of the return.
C26_ReturnUnwinds ==
    \A i \in Events :
       /\ IsCmd(i, "fnc_return") /\ BodyAround(i) # 0
       /\ Nesting({"fnc_if", "fnc_while", "fnc_for", "fnc_foreach",
                   "fnc_try", "fnc_eval", "fnc_enveval"}, BodyAround(i), i)
       => Unwinds(BodyAround(i), i)

-----------------------------------------------------------------------------
(* C27: the chain of Environments *)

\* The host has just called lil_pop_env with the root Environment current
PoppedAtRoot == last.op = "lil_pop_env" /\ last.env0 = lil.rootenv

\* C27: in every state, those inside a program included, the current
\* Environment reaches the root Environment over parent links, the root has
\* no parent and no owning Function, and after lil_pop_env with the root
\* current the root is still there and current.
C27_EnvChain ==
    /\ Rooted(lil)
    /\ \A i \in Events : trace[i].rooted
    /\ PoppedAtRoot => lil.env = lil.rootenv

\* lil_pop_env at the root has left the root current, after a program had
\* stopped with the error e
C27_Witness ==
    /\ PoppedAtRoot
    /\ lil.env = lil.rootenv
    /\ Rooted(lil)
    /\ lil.error # ERROR_NOERROR /\ lil.err_msg = <<"e">>
-----------------------------------------------------------------------------
(* C28: the cursor around nested evaluations *)

IsParse(i) == trace[i].ev = "parse"

IsList(i) == trace[i].ev = "list"

\* C28: lil_parse returns with the cursor (text, length, position) it was
\* called with, whatever way it leaves its loop; lil_subst_to_list returns
\* with that cursor and with the end-of-line flag it was called with; and
\* between the host's calls the cursor is the one of a new interpreter.
C28_CursorRestored ==
    /\ \A i \in Events : IsParse(i) => trace[EndOf(i)].to = trace[i].from
    /\ \A i \in Events : IsList(i) => /\ trace[i].to = trace[i].from
                                      /\ trace[i].eol = trace[i].eol0
    /\ Cursor(lil) = Cursor(lil_new)

\* A nested lil_parse and a lil_subst_to_list were entered in the middle
\* of a text, the latter with the end-of-line flag off, and a command of
\* the outer text ran after the nested lil_parse had returned
C28_Witness ==
    /\ \E i \in Events :
          /\ IsParse(i) /\ trace[i].from.head > 0
          /\ \E o \in 1..(i - 1), k \in Events :
                /\ IsParse(o) /\ o < i /\ EndOf(i) < k /\ k < EndOf(o)
                /\ trace[k].ev = "cmd" /\ trace[k].pid = trace[o].pid
                /\ trace[i].from.code = trace[o].code
    /\ \E i \in Events :
          /\ IsList(i) /\ trace[i].from.head > 0 /\ trace[i].eol0 = 0
          /\ Len(trace[i].words) > 0

-----------------------------------------------------------------------------
(* C29: the FixHead kind of error *)

\* The procedure of the built-in dispatched at event i left an error of its
\* own: none was pending at the dispatch, one is at its return, and nothing
\* it evaluated in between had raised it
Raised(i) ==
    /\ trace[i].ev = "cmd" /\ trace[i].proc # ""
    /\ trace[i].err = ERROR_NOERROR
    /\ trace[EndOf(i)].err # ERROR_NOERROR
    /\ \A k \in (i + 1)..(EndOf(i) - 1) : trace[k].err = ERROR_NOERROR

\* C29: an error that the procedure of a built-in raised with lil_set_error
\* is, when the dispatcher returns, of kind Default and at the position of
\* the dispatch; no command and no lil_parse returns with the kind FixHead,
\* and the host never finds it after its lil_parse.
C29_FixHeadInternal ==
    /\ \A i \in Events :
          Raised(i) => /\ trace[EndOf(i)].err = ERROR_DEFAULT
                       /\ trace[EndOf(i)].errpos = trace[i].head
    /\ \A i \in Events :
          trace[i].ev \in {"done", "parsed"} => trace[i].err # ERROR_FIXHEAD
    /\ last.op = "lil_parse" => lil.error # ERROR_FIXHEAD

\* expr has divided by zero in the middle of a text: the error the host
\* finds is of kind Default at the position behind the words of expr
C29_Witness ==
    /\ last.op = "lil_parse" /\ last.script = "expr_error"
    /\ lil.error = ERROR_DEFAULT /\ lil.err_head > 0
    /\ lil.err_msg = S_division_by_zero
    /\ \E i \in Events : /\ Raised(i) /\ IsCmd(i, "fnc_expr")
                          /\ trace[i].head = lil.err_head

-----------------------------------------------------------------------------
(* C30: the owner of the Value a built-in returns *)

IsReflect(i) == trace[i].ev = "reflect"

\* C30: the Value that reflect returns to the dispatcher, which frees it
\* later, is a null pointer or a Value made for the caller, never one that
\* a Function, an Environment, a Variable or a List still holds; this for
\* every kind of reflect.
C30_ReturnsFresh ==
    \A i \in Events : IsReflect(i) => trace[i].owner \in {"none", "fresh"}

-----------------------------------------------------------------------------
(* C31: the name index of an Environment and its Variables *)

\* The name index of Environment e agrees with its array of Variables
VarmapAgrees(l, e) ==
    LET env == l.envs[e] IN
    /\ \A i \in 1..Len(env.var) : hm_get(env.varmap, env.var[i].n) = i
    /\ \A k \in 1..Len(env.varmap) : env.varmap[k].v \in 0..Len(env.var)
    /\ \A i \in 1..Len(env.var) : env.var[i].env = e

\* C31: in every live Environment every Variable of the array is the one
\* the name index returns for its name, every index entry points into the
\* array, and every Variable's env field is the Environment that owns it.
C31_VarmapAgrees ==
    \A e \in 1..Len(lil.envs) : lil.envs[e].alive => VarmapAgrees(lil, e)

-----------------------------------------------------------------------------
(* C37: the command vector and its name index *)

\* The names of the Functions in the command vector
NameAt(l, k) == l.funcs[l.cmd[k]].name

\* C37: every Function in the command vector is the one the name index
\* returns for the Function's own name, no two Functions in the vector
\* have the same name, and every index entry that is not null points to a
\* Function in the vector.
C37_RegistryAgrees ==
    /\ \A k \in 1..Len(lil.cmd) :
          hm_get(lil.cmdmap, NameAt(lil, k)) = lil.cmd[k]
    /\ \A j, k \in 1..Len(lil.cmd) :
          j # k => NameAt(lil, j) # NameAt(lil, k)
    /\ \A e \in 1..Len(lil.cmdmap) :
          lil.cmdmap[e].v # 0 =>
             \E k \in 1..Len(lil.cmd) : lil.cmd[k] = lil.cmdmap[e].v

-----------------------------------------------------------------------------
(* C38: what defining a command changes *)

\* Every Function of l0 whose name is not N is in l1 what it was in l0
Untouched(l0, l1, N) ==
    \A id \in 1..Len(l0.funcs) :
       l0.funcs[id].name # N =>
          id <= Len(l1.funcs) /\ l1.funcs[id] = l0.funcs[id]

\* A command line whose first word is N runs the host procedure proc
DispatchesTo(l, N, proc) ==
    LET cmd == lil_find_cmd(l, N) IN
    cmd # 0 /\ l.funcs[cmd].name = N /\ l.funcs[cmd].proc = proc

\* C38: lil_register with the name N leaves every Function whose name is
\* not N as it was, and afterwards a command line whose first word is N
\* runs the procedure registered; add_func called from func or from
\* lil_register with the name N hands out a Function whose name is N.
C38_DefinesOnlyN ==
    /\ [][last'.op = "lil_register" =>
             /\ Untouched(lil, lil', last'.name)
             /\ DispatchesTo(lil', last'.name, last'.proc)]_vars
    /\ [](\A i \in Events :
             trace[i].ev = "add_func" /\ trace[i].inst = 0 =>
                lil.funcs[trace[i].id].name = trace[i].name)


-----------------------------------------------------------------------------
(* The host running programs that rename, delete and redefine Functions,   *)
(* map Lists on Variables and leave the top level early                    *)

FuncScripts ==
    <<[name |-> "has_func",
       \* func f {} {quote 1}; rename f {}; set h [reflect has-func f]; f
       code |-> <<"f", "u", "n", "c", " ", "f", " ", "{", "}", " ", "{", "q", "u", "o", "t", "e", " ", "1", "}", ";", " ", "r", "e", "n", "a", "m", "e", " ", "f", " ", "{", "}", ";", " ", "s", "e", "t", " ", "h", " ", "[", "r", "e", "f", "l", "e", "c", "t", " ", "h", "a", "s", "-", "f", "u", "n", "c", " ", "f", "]", ";", " ", "f">>],
      [name |-> "rename",
       \* func f {} {quote 1}; rename f g; g
       code |-> <<"f", "u", "n", "c", " ", "f", " ", "{", "}", " ", "{", "q", "u", "o", "t", "e", " ", "1", "}", ";", " ", "r", "e", "n", "a", "m", "e", " ", "f", " ", "g", ";", " ", "g">>],
      [name |-> "rename_onto",
       \* func f {} {quote 1}; func g {} {quote 2}; rename f g; g
       code |-> <<"f", "u", "n", "c", " ", "f", " ", "{", "}", " ", "{", "q", "u", "o", "t", "e", " ", "1", "}", ";", " ", "f", "u", "n", "c", " ", "g", " ", "{", "}", " ", "{", "q", "u", "o", "t", "e", " ", "2", "}", ";", " ", "r", "e", "n", "a", "m", "e", " ", "f", " ", "g", ";", " ", "g">>],
      [name |-> "redefine",
       \* func f {} {func f {} {quote 2}; quote 1}; f
       code |-> <<"f", "u", "n", "c", " ", "f", " ", "{", "}", " ", "{", "f", "u", "n", "c", " ", "f", " ", "{", "}", " ", "{", "q", "u", "o", "t", "e", " ", "2", "}", ";", " ", "q", "u", "o", "t", "e", " ", "1", "}", ";", " ", "f">>],
      [name |-> "delete",
       \* func f {} {rename f {}; quote 1}; f
       code |-> <<"f", "u", "n", "c", " ", "f", " ", "{", "}", " ", "{", "r", "e", "n", "a", "m", "e", " ", "f", " ", "{", "}", ";", " ", "q", "u", "o", "t", "e", " ", "1", "}", ";", " ", "f">>],
      [name |-> "lmap",
       \* lmap {1 2} a b; quote $a$b
       code |-> <<"l", "m", "a", "p", " ", "{", "1", " ", "2", "}", " ", "a", " ", "b", ";", " ", "q", "u", "o", "t", "e", " ", "$", "a", "$", "b">>],
      [name |-> "lmap_short",
       \* lmap {1} a b; quote $b
       code |-> <<"l", "m", "a", "p", " ", "{", "1", "}", " ", "a", " ", "b", ";", " ", "q", "u", "o", "t", "e", " ", "$", "b">>],
      [name |-> "lmap_func",
       \* func f {} {lmap {1} a b; quote $b}; f
       code |-> <<"f", "u", "n", "c", " ", "f", " ", "{", "}", " ", "{", "l", "m", "a", "p", " ", "{", "1", "}", " ", "a", " ", "b", ";", " ", "q", "u", "o", "t", "e", " ", "$", "b", "}", ";", " ", "f">>],
      [name |-> "return_top",
       \* return 1; set y 3
       code |-> <<"r", "e", "t", "u", "r", "n", " ", "1", ";", " ", "s", "e", "t", " ", "y", " ", "3">>],
      [name |-> "stray_brace",
       \* quote a; }; quote b
       code |-> <<"q", "u", "o", "t", "e", " ", "a", ";", " ", "}", ";", " ", "q", "u", "o", "t", "e", " ", "b">>],
      [name |-> "stray_bracket",
       \* quote a; ]; quote b
       code |-> <<"q", "u", "o", "t", "e", " ", "a", ";", " ", "]", ";", " ", "q", "u", "o", "t", "e", " ", "b">>],
      [name |-> "same_param",
       \* func f {a a} {quote $a}; f 1 2
       code |-> <<"f", "u", "n", "c", " ", "f", " ", "{", "a", " ", "a", "}", " ", "{", "q", "u", "o", "t", "e", " ", "$", "a", "}", ";", " ", "f", " ", "1", " ", "2">>],
      [name |-> "two",
       \* set y 1; set y 2
       code |-> <<"s", "e", "t", " ", "y", " ", "1", ";", " ", "s", "e", "t", " ", "y", " ", "2">>]>>

\* The host calls allowed in a run of SpecFuncs
MaxRuns == 2

\* The first read through a null pointer in the history, 0 for none
NullDerefAt(tr) ==
    LET at == {k \in 1..Len(tr) : tr[k].ev = "null_deref"} IN
    IF at = {} THEN 0 ELSE CHOOSE k \in at : \A j \in at : k <= j

\* The read through the null pointer traps: the call never returns and
\* the history ends at the read
Trapped(l, call) ==
    /\ lil' = lil
    /\ hostenv' = hostenv
    /\ trace' = SubSeq(l.trace, 1, NullDerefAt(l.trace))
    /\ last' = call @@ [op |-> "trap", n |-> last.n + 1,
                        err0 |-> lil.error, env0 |-> lil.env]

\* The host runs a program: lil_parse(lil, code, 0, funclevel).  undef and
\* trap are what the build makes of the undefined reads of the run.
HostParseFuncs(i, funclevel, undef, trap) ==
    /\ last.n < MaxRuns
    /\ last.op # "trap"
    /\ LET p == lil_parse([Run(0) EXCEPT !.undef = undef],
                          FuncScripts[i].code, 0, funclevel)
           call == [script |-> FuncScripts[i].name, funclevel |-> funclevel,
                    undef |-> undef]
       IN /\ trap => NullDerefAt(p.l.trace) # 0
          /\ IF trap THEN Trapped(p.l, call)
             ELSE Returns(p.l, call @@ [op |-> "lil_parse", r |-> p.r])

NextFuncs ==
    \E i \in 1..Len(FuncScripts), funclevel \in {0, 1}, undef \in Undefs,
       trap \in BOOLEAN : HostParseFuncs(i, funclevel, undef, trap)

SpecFuncs == Init /\ [][NextFuncs]_vars

-----------------------------------------------------------------------------
(* C32 *)

\* The name deleted at event i is given to a Function again between the
\* events i and j: by add_func or as the new name of a rename
GivenAgain(i, j, name) ==
    \E k \in (i + 1)..(j - 1) :
        \/ trace[k].ev = "add_func" /\ trace[k].name = name
        \/ /\ IsCmd(k, "fnc_rename") /\ Len(trace[k].words) >= 3
           /\ lil_to_string(trace[k].words[3]) = name

\* Event j asks `reflect has-func name`
AsksHasFunc(j, name) ==
    /\ IsCmd(j, "fnc_reflect") /\ Len(trace[j].words) >= 3
    /\ lil_to_string(trace[j].words[2]) = S_has_func
    /\ lil_to_string(trace[j].words[3]) = name

\* C32: after del_func has deleted the command NAME (`rename NAME {}`),
\* and until the name is given to a Function again, the dispatch of a
\* command line that begins with NAME finds no Function, and
\* `reflect has-func NAME` returns the null (empty) Value.
C32_DeletedIsAbsent ==
    \A i, j \in Events :
        /\ trace[i].ev = "del_func" /\ trace[i].inst = 0
        /\ j > i /\ trace[j].ev = "cmd" /\ trace[j].inst = 0
        /\ ~GivenAgain(i, j, trace[i].name)
        => /\ lil_to_string(trace[j].name0) = trace[i].name
                 => trace[j].func = 0
           /\ AsksHasFunc(j, trace[i].name) => trace[EndOf(j)].val = NULL

-----------------------------------------------------------------------------
(* C33 *)

\* C33: between the host's calls, when no evaluation is in progress, the
\* breakrun flag of the root Environment is false.
C33_RootBreakrunClear == lil.envs[lil.rootenv].breakrun = 0

-----------------------------------------------------------------------------
(* C34 *)

\* C34: a call of lil_parse that reaches its cleanup label with the cursor
\* before the end of its text has the error slot set or the breakrun flag
\* of the current Environment set.
C34_NeverSilent ==
    \A i \in Events :
        /\ trace[i].ev = "parsed" /\ trace[i].inst = 0
        /\ trace[i].at < trace[i].len
        => trace[i].err # ERROR_NOERROR \/ trace[i].brk # 0

-----------------------------------------------------------------------------
(* C36 *)

\* At event i the body of the script Function id is being evaluated: the
\* parse call that run_cmd made on its code has not returned
InBody(i, id) ==
    \E k \in 1..(i - 1) :
        /\ IsBody(k) /\ trace[k].func = id /\ trace[k].inst = trace[i].inst
        /\ \A j \in (k + 1)..(i - 1) :
              ~(trace[j].ev = "parsed" /\ trace[j].pid = trace[k].pid)

\* Event i frees the code of the Function id: add_func empties the Function
\* it has found, or del_func deletes it
FreesCode(i, id) ==
    \/ /\ trace[i].ev = "add_func" /\ trace[i].len = trace[i].len0
       /\ trace[i].id = id
    \/ trace[i].ev = "del_func" /\ trace[i].id = id

\* C36: while the body of a script Function is being evaluated, neither
\* add_func (a `func` of the same name) nor del_func (`rename NAME {}`)
\* frees that Function's code or the Function.
C36_BodyStaysAllocated ==
    \A i \in Events : \A id \in 1..Len(lil.funcs) :
        FreesCode(i, id) => ~InBody(i, id)

-----------------------------------------------------------------------------
(* C39 *)

\* C39: lil_set_var never reads the field d of a null Value: no run reaches
\* env_set(name, val->d) with a null val, and no call ends in the trap of
\* such a read.
C39_NoNullDeref ==
    /\ last.op # "trap"
    /\ \A i \in Events : trace[i].ev # "null_deref"

-----------------------------------------------------------------------------
(* C35: the writers of the error slot, applied to every state of the slot *)

\* The messages, the positions of the cursor and the characters the
\* writers are given
ErrMsgs == {NULL, <<"a">>, <<"b">>}
ErrHeads == {0, 1, 2}
ErrExpected == {"}", "]"}

\* The calls allowed in a run of SpecErr
MaxErrCalls == 3

\* The return of a writer of the error slot: the slot as the call found it
\* is kept beside the call
ErrReturns(l, call) ==
    Returns([l EXCEPT !.head = lil.head],
            call @@ [msg0 |-> lil.err_msg, pos0 |-> lil.err_head])

\* lil_set_error(lil, msg)
SetError(msg) ==
    /\ last.n < MaxErrCalls
    /\ ErrReturns(lil_set_error(Run(0), msg),
                  [op |-> "lil_set_error", msg |-> msg])

\* lil_set_error_at(lil, pos, msg)
SetErrorAt(pos, msg) ==
    /\ last.n < MaxErrCalls
    /\ ErrReturns(lil_set_error_at(Run(0), pos, msg),
                  [op |-> "lil_set_error_at", pos |-> pos, msg |-> msg])

\* lil_set_error_unbalanced(lil, expected) with the cursor at head
SetErrorUnbalanced(head, expected) ==
    /\ last.n < MaxErrCalls
    /\ ErrReturns(lil_set_error_unbalanced([Run(0) EXCEPT !.head = head],
                                           expected),
                  [op |-> "lil_set_error_unbalanced", pos |-> head,
                   msg |-> S_expected_ \o <<expected>>])

\* The dispatcher runs `error msg` with the cursor at head: run_cmd calls
\* fnc_error and rewrites a FixHead error
RunError(head, msg) ==
    /\ last.n < MaxErrCalls
    /\ msg # NULL
    /\ ErrReturns(Eval([Run(0) EXCEPT !.head = head],
                       [op |-> "run_cmd", cmd |-> lil_find_cmd(lil, S_error),
                        words |-> <<S_error, msg>>]).l,
                  [op |-> "run_cmd", pos |-> head, msg |-> msg])

NextErr ==
    \/ \E msg \in ErrMsgs : SetError(msg)
    \/ \E pos \in ErrHeads, msg \in ErrMsgs : SetErrorAt(pos, msg)
    \/ \E head \in ErrHeads, expected \in ErrExpected :
          SetErrorUnbalanced(head, expected)
    \/ \E head \in ErrHeads, msg \in ErrMsgs : RunError(head, msg)
    \/ HostError

SpecErr == Init /\ [][NextErr]_vars

ErrSetters == {"lil_set_error", "lil_set_error_at", "lil_set_error_unbalanced"}

\* C35: a call of lil_set_error, lil_set_error_at or
\* lil_set_error_unbalanced that finds the error slot set leaves its kind,
\* message and position as they were; the dispatcher running a command
\* that tries to set an error while one is pending leaves the message, and
\* changes the kind only from FixHead to Default.
C35_FirstErrorWins ==
    /\ last.op \in ErrSetters /\ last.err0 # ERROR_NOERROR
       => /\ lil.error = last.err0
          /\ lil.err_msg = last.msg0
          /\ lil.err_head = last.pos0
    /\ last.op = "run_cmd" /\ last.err0 # ERROR_NOERROR
       => /\ lil.err_msg = last.msg0
          /\ \/ lil.error = last.err0 /\ lil.err_head = last.pos0
             \/ last.err0 = ERROR_FIXHEAD /\ lil.error = ERROR_DEFAULT

\* A positioned error with another message and position was tried on a
\* slot that was set
C35_Witness ==
    /\ last.op = "lil_set_error_at" /\ last.err0 # ERROR_NOERROR
    /\ last.msg # NULL /\ last.msg # last.msg0 /\ last.pos # last.pos0

====
